---- MODULE Spec2Model ----
(***************************************************************************)
(* A model of the edge sync hub: the outbox, the push engine that drains   *)
(* it to the cloud, the HTTP routes that enqueue into it, and the pull     *)
(* engine's plan.  JavaScript runs one handler at a time, so every action  *)
(* is the code between two suspension points (an await of the cloud).      *)
(***************************************************************************)
EXTENDS Integers, Sequences, FiniteSets, TLC

\* ------------------------------------------------------------------ bounds
\* Rows the outbox may hold.
MaxRows == 2
\* max_attempts of the rows the model inserts.  The column's default is
\* DefaultMaxAttempts; the retry policy reads attempts only relative to
\* max_attempts, and a smaller value keeps the retry chain short.
RowMaxAttempts == 2
\* Entity types the cloud holds rows for.
MaxPulled == 2
\* The last instant of the clock that stamps updatedAt and last_synced_at.
MaxTime == 2
\* Calls of nextReceiptNumber() outside a sale.
MaxReceipts == 4
\* Session ids minted.
MaxSessions == 2
\* WebSocket peers connected at a time.
MaxClients == 2
\* The balance of a gift card at the start.
MaxBalance == 2
\* The amount of a redeem request that the card's balance covers.
RedeemAmount == 1
\* PIN requests a source sends beyond the rate limit.
MaxOverLimit == 1
\* Half rate-limit windows the clock runs for.
MaxClockTicks == 2

\* ------------------------------------------------------- program constants
\* outbox_queue.max_attempts INTEGER DEFAULT 5
DefaultMaxAttempts == 5
\* processOutbox(batchSize = 20)
DefaultBatchSize == 20

\* Entity type -> cloud API path: the entity types that have a path.
pushEndpoints ==
  {"sale", "kitchen_order", "cash_drawer", "shift_log", "gift_card", "refund",
   "store_credit"}

\* HTTP statuses the cloud client's envelope can carry (0: no response).
HttpStatuses == {0, 201, 400, 409, 500}

\* The kitchen order bump's status flow.
statusFlow ==
  [PENDING |-> "PREPARING", PREPARING |-> "READY", READY |-> "COMPLETED"]

VARIABLES
  outbox,         \* outbox_queue: a sequence of rows, the index is the id
  running,        \* PushSyncEngine.running
  batch,          \* the items of the drain in progress not yet processed
  cur,            \* the item whose POST is awaited (id 0: none)
  cloudApiUrl,    \* config.cloudApiUrl: "unset", "malformed" or "valid"
  cloudMode,      \* how the cloud answers: "free", "accept" or "fail500"
  cloudApplied,   \* the <<entityId, action>> pairs the cloud has applied
  hist,           \* per outbox row, what has happened to it (history)
  nextId,         \* generateId(): the next fresh identifier
  sales,          \* sales: id -> status
  kitchen_orders, \* kitchen_orders: id -> status
  kitchen_order_items, \* kitchen_order_items: order id -> the item's status
  alive,          \* the hub process runs
  dbOpen,         \* the database handle is open (db # null)
  intervalId,     \* per engine: its interval timer is set
  touchedClosed,  \* an engine used the database handle after it was closed (history)
  envelope,       \* the last call of the cloud client and what it gave its caller
  guest_checks,   \* guest_checks: the ids
  cash_drawers,   \* cash_drawers: id -> status
  gift_cards,     \* gift_cards: id -> current_balance
  sync_status,    \* sales and kitchen_orders: id -> the row's sync_status
  sale_items,     \* sale_items: the sale ids that have item rows
  payments,       \* payments: the sale ids that have payment rows
  plan_pos,       \* runFullSync: the index of the entity being pulled
  upserted,       \* the tables upserted so far in this pull cycle, in order
  pullRunning,    \* PullSyncEngine.running
  sync_state,     \* sync_state: entity type -> its row (NoSyncState: none)
  tables,         \* the replicated tables: table -> its rows, in rowid order
  request,        \* the request in flight: the entity and its sinceVersion
  pending,        \* the answer in flight: the entity and the rows the cloud read
  now,            \* datetime('now')
  cloud,          \* the cloud's rows: entity -> row id -> updatedAt (0: none)
  cloudFault,     \* the endpoint the cloud answers with a failure status
  cloudGiftCards, \* the gift cards the cloud held at the start: id -> its record
  pulledSinceChange, \* a pull cycle has completed since the cloud last changed
  results,        \* runFullSync: entity -> its PullResult in the latest cycle
  cloudDeleted,   \* the deletedIds the cloud lists, per endpoint, in order
  order_sequence, \* order_sequence: date_key -> current_value (0: no row)
  receipts,       \* the receipt numbers handed out so far, in order (history)
  broadcasts,     \* the events the routes have broadcast so far, in order (history)
  clients,        \* the WebSocket registry: client id -> terminalId, role, readyState
  frames,         \* the last broadcast call: its event, filter and recipients
  txlog,          \* the transaction steps and broadcasts of the last request
  reply,          \* the last request and the answer to it
  clock,          \* Date.now(), in milliseconds
  pinAttempts,    \* pinAttempts: ip -> {count, resetAt} (NoEntry: none)
  pinLog,         \* per ip, the times of its latest well-formed PIN requests
  pinPassed,      \* per ip, the times of its latest requests the limiter let pass
  terminals,      \* terminals: the ids
  terminal_sessions \* terminal_sessions: session id -> its row

pushVars ==
  <<outbox, running, batch, cur, cloudApiUrl, cloudMode, cloudApplied, hist>>
storeVars ==
  <<nextId, sales, kitchen_orders, kitchen_order_items, guest_checks, cash_drawers, gift_cards,
    sync_status, sale_items, payments>>
pullVars ==
  <<plan_pos, upserted, pullRunning, sync_state, tables, request, pending, now,
    cloud,
    cloudFault, cloudGiftCards, pulledSinceChange, results, cloudDeleted>>
seqVars == <<order_sequence, receipts>>
wsVars == <<broadcasts, clients, frames, txlog>>
authVars == <<clock, pinAttempts, pinLog, pinPassed, terminals,
              terminal_sessions>>
apiVars == <<seqVars, wsVars, reply, authVars>>
procVars == <<alive, dbOpen, intervalId, touchedClosed, envelope>>
vars == <<pushVars, storeVars, pullVars, apiVars, procVars>>

NoItem == [id |-> 0, attempts |-> 0, max_attempts |-> 0]

Terminal(row) == row.status \in {"SYNCED", "DEAD_LETTER"}

Min(a, b) == IF a < b THEN a ELSE b

\* ------------------------------------------------------------ the outbox

\* A row as the routes insert it: status and attempts take the column
\* defaults.
NewRow(entity_type, entity_id, action, priority) ==
  [entity_type |-> entity_type, entity_id |-> entity_id, action |-> action,
   priority |-> priority, status |-> "PENDING", attempts |-> 0,
   max_attempts |-> RowMaxAttempts, error |-> "none", payload_json |-> TRUE]

\* What has happened to a row since it was inserted or last reset by
\* retry-dead-letters: the POSTs sent for it, the drains that started while it
\* was not terminal and the cloud URL was valid (counted up to max_attempts),
\* whether a 409 or another 4xx answered one of its POSTs;
\* and the times the cloud applied its payload.
NewHist ==
  [posts |-> 0, cycles |-> 0, seen409 |-> FALSE, seen4xx |-> FALSE,
   applied |-> 0]

\* WHERE status = 'PENDING' AND attempts < max_attempts
Eligible_NoAttemptsFilter(row) == row.status = "PENDING"
Eligible_AlsoDeadLetter(row) ==
  row.status \in {"PENDING", "DEAD_LETTER"} /\ row.attempts < row.max_attempts
Eligible(row) == row.status = "PENDING" /\ row.attempts < row.max_attempts

\* ORDER BY priority DESC, created_at ASC: whether row i comes before row j.
\* Rows are inserted in id order, so created_at orders as the id does.
Before_IgnoresPriority(ob, i, j) == i < j
Before(ob, i, j) ==
  \/ ob[i].priority > ob[j].priority
  \/ ob[i].priority = ob[j].priority /\ i < j

RECURSIVE SortIds(_, _)
SortIds(ob, ids) ==
  IF ids = {} THEN <<>>
  ELSE LET first == CHOOSE i \in ids : \A j \in ids \ {i} : Before(ob, i, j)
       IN  <<first>> \o SortIds(ob, ids \ {first})

\* The SELECT of processOutbox: the snapshot of up to batchSize eligible rows.
SelectBatch(ob, batchSize) ==
  LET ids == {i \in DOMAIN ob : Eligible(ob[i])}
      sorted == SortIds(ob, ids)
      taken == SubSeq(sorted, 1, Min(Len(sorted), batchSize))
  IN  [k \in DOMAIN taken |->
         [id |-> taken[k], attempts |-> ob[taken[k]].attempts,
          max_attempts |-> ob[taken[k]].max_attempts]]

\* UPDATE ... SET status = 'PROCESSING', attempts = attempts + 1 WHERE id = ?
MarkProcessing(row) ==
  [row EXCEPT !.status = "PROCESSING", !.attempts = row.attempts + 1]

\* The catch of the item's try: back to PENDING whatever attempts is.
CatchItem(row) == [row EXCEPT !.status = "PENDING", !.error = "thrown"]

\* The outcome policy on the cloud's answer to the POST of `item` (the
\* snapshot the drain selected) whose row is `row`.
HandleResponse_No409Branch(item, row, status) ==
  IF status >= 200 /\ status < 300
  THEN [row EXCEPT !.status = "SYNCED"]
  ELSE IF status >= 400 /\ status < 500
  THEN [row EXCEPT !.status = "DEAD_LETTER", !.error = "HTTP 4xx"]
  ELSE IF item.attempts + 1 >= item.max_attempts
  THEN [row EXCEPT !.status = "DEAD_LETTER", !.error = "Max attempts"]
  ELSE [row EXCEPT !.status = "PENDING", !.error = "HTTP error"]
HandleResponse_4xxRetries(item, row, status) ==
  IF status >= 200 /\ status < 300
  THEN [row EXCEPT !.status = "SYNCED"]
  ELSE IF status = 409
  THEN [row EXCEPT !.status = "SYNCED", !.error = "Duplicate (409)"]
  ELSE IF item.attempts + 1 >= item.max_attempts
  THEN [row EXCEPT !.status = "DEAD_LETTER", !.error = "Max attempts"]
  ELSE [row EXCEPT !.status = "PENDING", !.error = "HTTP error"]
HandleResponse_OffByOne(item, row, status) ==
  IF status >= 200 /\ status < 300
  THEN [row EXCEPT !.status = "SYNCED"]
  ELSE IF status = 409
  THEN [row EXCEPT !.status = "SYNCED", !.error = "Duplicate (409)"]
  ELSE IF status >= 400 /\ status < 500
  THEN [row EXCEPT !.status = "DEAD_LETTER", !.error = "HTTP 4xx"]
  ELSE IF item.attempts >= item.max_attempts
  THEN [row EXCEPT !.status = "DEAD_LETTER", !.error = "Max attempts"]
  ELSE [row EXCEPT !.status = "PENDING", !.error = "HTTP error"]
HandleResponse(item, row, status) ==
  IF status >= 200 /\ status < 300
  THEN [row EXCEPT !.status = "SYNCED"]
  ELSE IF status = 409
  THEN [row EXCEPT !.status = "SYNCED", !.error = "Duplicate (409)"]
  ELSE IF status >= 400 /\ status < 500
  THEN [row EXCEPT !.status = "DEAD_LETTER", !.error = "HTTP 4xx"]
  ELSE IF item.attempts + 1 >= item.max_attempts
  THEN [row EXCEPT !.status = "DEAD_LETTER", !.error = "Max attempts"]
  ELSE [row EXCEPT !.status = "PENDING", !.error = "HTTP error"]

\* The for loop of processOutbox from its next item up to the next await:
\* an item with no endpoint or an unparsable payload is dead-lettered and
\* the loop goes on; with a malformed base URL post() throws before any
\* request is sent and the catch puts the row back; otherwise the POST is
\* sent and the loop waits for its answer.  Yields the store, the history,
\* the item awaited (NoItem: the loop ended) and the items left.
RECURSIVE RunBatch(_, _, _, _)
RunBatch(ob, hs, items, url) ==
  IF items = <<>> THEN [ob |-> ob, hs |-> hs, cur |-> NoItem, rest |-> <<>>]
  ELSE
    LET item == Head(items)
        id == item.id
        marked == MarkProcessing(ob[id])
    IN  IF marked.entity_type \notin pushEndpoints
        THEN RunBatch(
               [ob EXCEPT ![id] = [marked EXCEPT !.status = "DEAD_LETTER",
                                                 !.error = "Unknown entity type"]],
               hs, Tail(items), url)
        ELSE IF ~marked.payload_json
        THEN RunBatch(
               [ob EXCEPT ![id] = [marked EXCEPT !.status = "DEAD_LETTER",
                                                 !.error = "Invalid JSON payload"]],
               hs, Tail(items), url)
        ELSE IF url = "malformed"
        THEN RunBatch([ob EXCEPT ![id] = CatchItem(marked)],
                      hs,
                      Tail(items), url)
        ELSE [ob |-> [ob EXCEPT ![id] = marked],
              hs |-> [hs EXCEPT ![id].posts = hs[id].posts + 1],
              cur |-> item, rest |-> Tail(items)]

\* isConfigured(): base URL and API key are both present.
isConfigured == cloudApiUrl # "unset"

\* A timer tick or POST /api/sync/push while no drain runs: select the batch
\* and process it up to the first await.  An empty batch returns at once.
ProcessOutbox_NoRunningFlag ==
  /\ isConfigured
  /\ LET items == SelectBatch(outbox, DefaultBatchSize)
         counted == [i \in DOMAIN hist |->
                       IF Terminal(outbox[i]) \/ cloudApiUrl # "valid" THEN hist[i]
                       ELSE [hist[i] EXCEPT
                               !.cycles = Min(hist[i].cycles + 1,
                                              outbox[i].max_attempts)]]
         r == RunBatch(outbox, counted, items, cloudApiUrl)
     IN  /\ outbox' = r.ob
         /\ hist' = r.hs
         /\ cur' = r.cur
         /\ batch' = r.rest
         /\ running' = (r.cur.id # 0)
  /\ UNCHANGED <<cloudApiUrl, cloudMode, cloudApplied, storeVars, pullVars, procVars, apiVars>>
ProcessOutbox ==
  /\ ~running
  /\ isConfigured
  /\ LET items == SelectBatch(outbox, DefaultBatchSize)
         counted == [i \in DOMAIN hist |->
                       IF Terminal(outbox[i]) \/ cloudApiUrl # "valid" THEN hist[i]
                       ELSE [hist[i] EXCEPT
                               !.cycles = Min(hist[i].cycles + 1,
                                              outbox[i].max_attempts)]]
         r == RunBatch(outbox, counted, items, cloudApiUrl)
     IN  /\ outbox' = r.ob
         /\ hist' = r.hs
         /\ cur' = r.cur
         /\ batch' = r.rest
         /\ running' = (r.cur.id # 0)
  /\ UNCHANGED <<cloudApiUrl, cloudMode, cloudApplied, storeVars, pullVars, procVars, apiVars>>

\* What the cloud may do with a POST carrying `key` (entityId + action): a
\* repeat of an applied key is answered 409 (or the answer is lost) and not
\* applied again; a new key is applied and acknowledged, applied with the
\* answer lost, refused (4xx), failed (5xx) or never received.
CloudOutcomes(key) ==
  IF cloudMode = "fail500" THEN {[status |-> 500, apply |-> FALSE]}
  ELSE IF key \in cloudApplied
  THEN IF cloudMode = "accept" THEN {[status |-> 409, apply |-> FALSE]}
       ELSE {[status |-> 409, apply |-> FALSE], [status |-> 0, apply |-> FALSE]}
  ELSE IF cloudMode = "accept" THEN {[status |-> 201, apply |-> TRUE]}
  ELSE {[status |-> 201, apply |-> TRUE], [status |-> 0, apply |-> TRUE],
        [status |-> 0, apply |-> FALSE], [status |-> 400, apply |-> FALSE],
        [status |-> 500, apply |-> FALSE]}

\* The awaited POST answers (or times out): apply the outcome policy to the
\* item, then go on with the rest of the batch up to the next await.
PostReturns_StopsOnFailure ==
  /\ running
  /\ cur.id # 0
  /\ LET id == cur.id
         row == outbox[id]
         key == <<row.entity_id, row.action>>
     IN  \E o \in CloudOutcomes(key) :
           LET handled == [outbox EXCEPT ![id] = HandleResponse(cur, row, o.status)]
               h1 == [hist EXCEPT
                        ![id].applied = hist[id].applied + (IF o.apply THEN 1 ELSE 0),
                        ![id].seen409 = hist[id].seen409 \/ o.status = 409,
                        ![id].seen4xx = hist[id].seen4xx
                                        \/ (o.status >= 400 /\ o.status < 500
                                            /\ o.status # 409)]
               r == RunBatch(handled, h1,
                             IF o.status >= 200 /\ o.status < 300 THEN batch
                             ELSE <<>>,
                             cloudApiUrl)
           IN  /\ o.status \in HttpStatuses
               /\ cloudApplied' = IF o.apply THEN cloudApplied \cup {key}
                                  ELSE cloudApplied
               /\ outbox' = r.ob
               /\ hist' = r.hs
               /\ cur' = r.cur
               /\ batch' = r.rest
               /\ running' = (r.cur.id # 0)
  /\ UNCHANGED <<cloudApiUrl, cloudMode, storeVars, pullVars, procVars, apiVars>>
PostReturns ==
  /\ running
  /\ cur.id # 0
  /\ LET id == cur.id
         row == outbox[id]
         key == <<row.entity_id, row.action>>
     IN  \E o \in CloudOutcomes(key) :
           LET handled == [outbox EXCEPT ![id] = HandleResponse(cur, row, o.status)]
               h1 == [hist EXCEPT
                        ![id].applied = hist[id].applied + (IF o.apply THEN 1 ELSE 0),
                        ![id].seen409 = hist[id].seen409 \/ o.status = 409,
                        ![id].seen4xx = hist[id].seen4xx
                                        \/ (o.status >= 400 /\ o.status < 500
                                            /\ o.status # 409)]
               r == RunBatch(handled, h1, batch, cloudApiUrl)
           IN  /\ o.status \in HttpStatuses
               /\ cloudApplied' = IF o.apply THEN cloudApplied \cup {key}
                                  ELSE cloudApplied
               /\ outbox' = r.ob
               /\ hist' = r.hs
               /\ cur' = r.cur
               /\ batch' = r.rest
               /\ running' = (r.cur.id # 0)
  /\ UNCHANGED <<cloudApiUrl, cloudMode, storeVars, pullVars, procVars, apiVars>>

\* retryDeadLetters(entityType?): "" stands for no entity type given.
RetryRow_KeepsAttempts(row, entityType) ==
  IF row.status = "DEAD_LETTER" /\ (entityType = "" \/ row.entity_type = entityType)
  THEN [row EXCEPT !.status = "PENDING"]
  ELSE row
RetryRow(row, entityType) ==
  IF row.status = "DEAD_LETTER" /\ (entityType = "" \/ row.entity_type = entityType)
  THEN [row EXCEPT !.status = "PENDING", !.attempts = 0]
  ELSE row

RetryUrl == <<"api", "sync", "retry-dead-letters">>

RetryTypes == {"", "sale", "guest_check"}

\* POST /api/sync/retry-dead-letters
RetryDeadLetters(entityType) ==
  /\ LET ob == [i \in DOMAIN outbox |-> RetryRow(outbox[i], entityType)]
     IN  /\ ob # outbox
         /\ outbox' = ob
         /\ hist' = [i \in DOMAIN hist |->
                       IF ob[i] # outbox[i]
                       THEN [NewHist EXCEPT !.applied = hist[i].applied]
                       ELSE hist[i]]
  /\ reply' = [url |-> RetryUrl, id |-> 0, sid |-> 0, ip |-> "none",
               pin |-> <<>>, status |-> 200, success |-> TRUE,
               by |-> "handler", sessionId |-> 0]
  /\ txlog' = <<>>
  /\ UNCHANGED <<running, batch, cur, cloudApiUrl, cloudMode, cloudApplied,
                 storeVars, pullVars, procVars, seqVars, broadcasts, clients, frames, authVars>>

\* POST /api/setup/cloud-url: a non-empty URL is saved as given, unvalidated,
\* and the cloud client reads it live on its next call.
SetCloudApiUrl(url) ==
  /\ url \in {"malformed", "valid"}
  /\ url # cloudApiUrl
  /\ cloudApiUrl' = url
  /\ UNCHANGED <<outbox, running, batch, cur, cloudMode, cloudApplied, hist,
                 storeVars, pullVars, procVars, apiVars>>

\* ------------------------------------------------------- the cloud client

\* What fetch can come back with: no response because the network failed or
\* the 30 s timer aborted the request, or a response with a status, a
\* content type and a body that is or is not JSON text.
ResponseStatuses ==
  {200, 201, 204, 301, 400, 401, 403, 404, 409, 429, 500, 502, 503}

Responses ==
  {[kind |-> k, status |-> 0, json |-> FALSE, parses |-> FALSE] :
     k \in {"network", "timeout"}}
  \cup [kind : {"response"}, status : ResponseStatuses, json : BOOLEAN,
        parses : BOOLEAN]

NoCall ==
  [method |-> "none", thrown |-> FALSE, ok |-> FALSE, status |-> 0,
   error |-> FALSE, data |-> FALSE,
   response |-> [kind |-> "none", status |-> 0, json |-> FALSE,
                 parses |-> FALSE]]

\* Response.ok
ResOk(status) == status >= 200 /\ status <= 299

\* CloudClient.get and CloudClient.post share their body.  new URL(path,
\* baseUrl) stands before the try and throws on a base that is empty or not
\* a URL; inside the try, a rejected fetch and a res.json() that throws on
\* the body both end in the catch.
fetchEnvelope(method, baseUrl, response) ==
  IF baseUrl # "valid"
  THEN [method |-> method, thrown |-> TRUE, ok |-> FALSE, status |-> 0,
        error |-> FALSE, data |-> FALSE, response |-> NoCall.response]
  ELSE IF response.kind # "response" \/ (response.json /\ ~response.parses)
  THEN [method |-> method, thrown |-> FALSE, ok |-> FALSE, status |-> 0,
        error |-> TRUE, data |-> FALSE, response |-> response]
  ELSE [method |-> method, thrown |-> FALSE, ok |-> ResOk(response.status),
        status |-> response.status, error |-> FALSE,
        data |-> response.json, response |-> response]

get(baseUrl, response) == fetchEnvelope("GET", baseUrl, response)
post(baseUrl, response) == fetchEnvelope("POST", baseUrl, response)

\* A caller awaits get or post.
CloudGet(response) ==
  /\ envelope' = get(cloudApiUrl, response)
  /\ UNCHANGED <<alive, dbOpen, intervalId, touchedClosed, pushVars,
                 storeVars, pullVars, apiVars>>

CloudPost(response) ==
  /\ envelope' = post(cloudApiUrl, response)
  /\ UNCHANGED <<alive, dbOpen, intervalId, touchedClosed, pushVars,
                 storeVars, pullVars, apiVars>>

\* ------------------------------------------------------- the HTTP routes

\* The actions of the store routes model their handlers, which a request
\* enters once the session hook has let it through.

\* INSERT INTO outbox_queue (...) inside the route's transaction.
Enqueue(entity_type, entity_id, action, priority) ==
  /\ outbox' = Append(outbox, NewRow(entity_type, entity_id, action, priority))
  /\ hist' = Append(hist, NewHist)

\* The answer of a route's handler.
Reply(url, id, status, success) ==
  [url |-> url, id |-> id, sid |-> 0, ip |-> "none", pin |-> <<>>,
   status |-> status, success |-> success, by |-> "handler", sessionId |-> 0]

NoReply == Reply(<<>>, 0, 0, FALSE)

BumpUrl == <<"api", "kitchen-orders", "id", "bump">>

\* What a handler does once transaction(fn) is over: a commit returns and the
\* handler goes on to its broadcasts; a rollback rethrows fn's exception, which
\* leaves the handler.
AfterTransaction_BroadcastsAnyway(committed, events) == events
AfterTransaction(committed, events) == IF committed THEN events ELSE <<>>

\* The steps of a handler that runs one transaction and then broadcasts.
TxSteps(committed, events) ==
  <<"BEGIN", IF committed THEN "COMMIT" ELSE "ROLLBACK">>
    \o [k \in DOMAIN AfterTransaction(committed, events) |-> "broadcast"]

\* broadcast(event, data, filter?)
Event(event, id, status) == [event |-> event, id |-> id, status |-> status]

\* The filters of broadcast: none, { role }, { excludeId }.
NoFilter == [role |-> "none", excludeId |-> 0]
RoleFilter(role) == [role |-> role, excludeId |-> 0]
ExcludeFilter(clientId) == [role |-> "none", excludeId |-> clientId]

\* socket.readyState
OPEN == 1
CLOSING == 2

\* broadcast(event, data, filter): the clients of the registry a frame is sent
\* to, one send per client that passes the filter and whose socket is OPEN.
broadcast(event, filter) ==
  LET pass(c) == /\ c \in DOMAIN clients
                 /\ ~(filter.excludeId # 0 /\ c = filter.excludeId)
                 /\ ~(filter.role # "none" /\ clients[c].role # filter.role)
                 /\ clients[c].readyState = OPEN
  IN  [event |-> event, filter |-> filter,
       to |-> SelectSeq([c \in 1..MaxClients |-> c], pass)]

NoFrames == [event |-> "none", filter |-> NoFilter, to |-> <<>>]

\* The broadcast a handler makes after its transaction, if it makes one.
Fanout(events, filter) ==
  IF events = <<>> THEN frames ELSE broadcast(events[Len(events)].event, filter)

\* The model's clock counts half days.
TicksPerDay == 2

\* new Date().toISOString().slice(0, 10).replace(/-/g, "")
DateKey(t) == t \div TicksPerDay

DateKeys == {DateKey(t) : t \in 0..MaxTime}

\* String(n): the decimal digits of n
RECURSIVE Digits(_)
Digits(n) == IF n < 10 THEN <<n>> ELSE Append(Digits(n \div 10), n % 10)

\* s.padStart(targetLength, pad)
padStart(s, targetLength, pad) ==
  IF Len(s) >= targetLength THEN s
  ELSE [k \in 1..(targetLength - Len(s)) |-> pad] \o s

\* The digits of the sequence number a receipt number ends with.
SeqWidth == 4

\* nextReceiptNumber(): one INSERT ... ON CONFLICT DO UPDATE ... RETURNING
\* statement, and the formatted number.
nextReceiptNumber_InsertOrIgnore(seq, dateKey) ==
  LET current_value == IF seq[dateKey] = 0 THEN 1 ELSE seq[dateKey]
  IN  [order_sequence |-> [seq EXCEPT ![dateKey] = current_value],
       receipt |-> [date_key |-> dateKey,
                    seq |-> padStart(Digits(current_value), SeqWidth, 0)]]
nextReceiptNumber(seq, dateKey) ==
  LET current_value == IF seq[dateKey] = 0 THEN 1 ELSE seq[dateKey] + 1
  IN  [order_sequence |-> [seq EXCEPT ![dateKey] = current_value],
       receipt |-> [date_key |-> dateKey,
                    seq |-> padStart(Digits(current_value), SeqWidth, 0)]]

\* A call of nextReceiptNumber() outside any transaction.
NextReceiptNumber ==
  /\ Len(receipts) < MaxReceipts
  /\ LET r == nextReceiptNumber(order_sequence, DateKey(now))
     IN  /\ order_sequence' = r.order_sequence
         /\ receipts' = Append(receipts, r.receipt)
  /\ UNCHANGED <<pushVars, storeVars, pullVars, procVars, wsVars, reply, authVars>>

\* POST /api/sales.  With ok = FALSE an item of the body lacks its productId,
\* the insert throws and the transaction, the receipt number with it, is
\* rolled back.
CreateSale(ok) ==
  /\ IF ok
     THEN LET r == nextReceiptNumber(order_sequence, DateKey(now))
          IN  /\ order_sequence' = r.order_sequence
              /\ receipts' = Append(receipts, r.receipt)
              /\ sales' = sales @@ (nextId :> "COMPLETED")
              /\ sync_status' = sync_status @@ (nextId :> "PENDING")
              /\ sale_items' = sale_items \cup {nextId}
              /\ payments' = payments \cup {nextId}
              /\ Enqueue("sale", nextId, "create", 10)
              /\ nextId' = nextId + 1
              /\ reply' = Reply(<<"api", "sales">>, nextId, 200, TRUE)
     ELSE /\ UNCHANGED <<order_sequence, receipts, sales, sync_status,
                         sale_items, payments, outbox, hist, nextId>>
          /\ reply' = Reply(<<"api", "sales">>, 0, 500, FALSE)
  /\ txlog' = TxSteps(ok, <<>>)
  /\ UNCHANGED <<kitchen_orders, kitchen_order_items, guest_checks, cash_drawers, gift_cards>>
  /\ UNCHANGED <<running, batch, cur, cloudApiUrl, cloudMode, cloudApplied,
                 pullVars, procVars, broadcasts, clients, frames, authVars>>

\* POST /api/sales/:id/void
VoidSale(id) ==
  /\ id \in DOMAIN sales
  /\ sales[id] # "VOIDED"
  /\ sales' = [sales EXCEPT ![id] = "VOIDED"]
  /\ sync_status' = [sync_status EXCEPT ![id] = "PENDING"]
  /\ Enqueue("sale", id, "void", 10)
  /\ reply' = Reply(<<"api", "sales", "id", "void">>, id, 200, TRUE)
  /\ txlog' = TxSteps(TRUE, <<>>)
  /\ UNCHANGED <<nextId, kitchen_orders, kitchen_order_items, guest_checks, cash_drawers, gift_cards,
                 sale_items, payments>>
  /\ UNCHANGED <<running, batch, cur, cloudApiUrl, cloudMode, cloudApplied,
                 pullVars, procVars, seqVars, broadcasts, clients, frames, authVars>>

\* POST /api/kitchen-orders (the order is modelled with one item).  With
\* ok = FALSE the item lacks its productId, the insert throws and the
\* transaction is rolled back.
CreateKitchenOrder(ok) ==
  /\ IF ok
     THEN /\ kitchen_orders' = kitchen_orders @@ (nextId :> "PENDING")
          /\ sync_status' = sync_status @@ (nextId :> "PENDING")
          /\ kitchen_order_items' = kitchen_order_items @@ (nextId :> "PENDING")
          /\ Enqueue("kitchen_order", nextId, "create", 10)
          /\ nextId' = nextId + 1
          /\ reply' = Reply(<<"api", "kitchen-orders">>, nextId, 200, TRUE)
     ELSE /\ UNCHANGED <<kitchen_orders, kitchen_order_items, sync_status,
                         outbox, hist, nextId>>
          /\ reply' = Reply(<<"api", "kitchen-orders">>, 0, 500, FALSE)
  /\ LET events == <<Event("order:created", nextId, "PENDING")>>
     IN  /\ broadcasts' = broadcasts \o AfterTransaction(ok, events)
         /\ frames' = Fanout(AfterTransaction(ok, events), RoleFilter("kds"))
         /\ txlog' = TxSteps(ok, events)
  /\ UNCHANGED <<sales, guest_checks, cash_drawers, gift_cards, sale_items, payments, clients>>
  /\ UNCHANGED <<running, batch, cur, cloudApiUrl, cloudMode, cloudApplied,
                 pullVars, procVars, seqVars, authVars>>

\* PATCH /api/kitchen-orders/:id, for an order that exists.  A body without
\* status binds undefined, the update throws and the transaction is rolled
\* back.
PatchKitchenOrder(id, status) ==
  /\ id \in DOMAIN kitchen_orders
  /\ LET ok == status # "undefined"
         events == <<Event("order:status", id, status)>>
     IN  /\ IF ok
            THEN /\ kitchen_orders' = [kitchen_orders EXCEPT ![id] = status]
                 /\ sync_status' = [sync_status EXCEPT ![id] = "PENDING"]
                 /\ Enqueue("kitchen_order", id, "update", 5)
                 /\ reply' = Reply(<<"api", "kitchen-orders", "id">>, id, 200, TRUE)
            ELSE /\ UNCHANGED <<kitchen_orders, sync_status, outbox, hist>>
                 /\ reply' = Reply(<<"api", "kitchen-orders", "id">>, id, 500, FALSE)
         /\ broadcasts' = broadcasts \o AfterTransaction(ok, events)
         /\ frames' = Fanout(AfterTransaction(ok, events), NoFilter)
         /\ txlog' = TxSteps(ok, events)
  /\ UNCHANGED <<nextId, sales, kitchen_order_items, guest_checks, cash_drawers, gift_cards, sale_items,
                 payments, clients>>
  /\ UNCHANGED <<running, batch, cur, cloudApiUrl, cloudMode, cloudApplied,
                 pullVars, procVars, seqVars, authVars>>

\* POST /api/kitchen-orders/:id/bump, for an order that exists: a status the
\* flow does not advance is answered success: false before anything is
\* written.
BumpKitchenOrder_BumpsAnyStatus(id) ==
  /\ id \in DOMAIN kitchen_orders
  /\ LET nextStatus == IF kitchen_orders[id] \in DOMAIN statusFlow
                       THEN statusFlow[kitchen_orders[id]] ELSE "COMPLETED"
         events == <<Event("order:status", id, nextStatus)>>
     IN  /\ kitchen_orders' = [kitchen_orders EXCEPT ![id] = nextStatus]
         /\ sync_status' = [sync_status EXCEPT ![id] = "PENDING"]
         /\ kitchen_order_items' =
              [kitchen_order_items EXCEPT
                 ![id] = IF @ # "VOIDED" THEN nextStatus ELSE @]
         /\ Enqueue("kitchen_order", id, "update", 5)
         /\ broadcasts' = broadcasts \o AfterTransaction(TRUE, events)
         /\ frames' = Fanout(AfterTransaction(TRUE, events), NoFilter)
         /\ txlog' = TxSteps(TRUE, events)
         /\ reply' = Reply(BumpUrl, id, 200, TRUE)
  /\ UNCHANGED <<nextId, sales, guest_checks, cash_drawers, gift_cards, sale_items, payments, clients>>
  /\ UNCHANGED <<running, batch, cur, cloudApiUrl, cloudMode, cloudApplied,
                 pullVars, procVars, seqVars, authVars>>
BumpKitchenOrder(id) ==
  /\ id \in DOMAIN kitchen_orders
  /\ IF kitchen_orders[id] \in DOMAIN statusFlow
     THEN LET nextStatus == statusFlow[kitchen_orders[id]]
              events == <<Event("order:status", id, nextStatus)>>
          IN  /\ kitchen_orders' = [kitchen_orders EXCEPT ![id] = nextStatus]
              /\ sync_status' = [sync_status EXCEPT ![id] = "PENDING"]
              /\ kitchen_order_items' =
                   [kitchen_order_items EXCEPT
                      ![id] = IF @ # "VOIDED" THEN nextStatus ELSE @]
              /\ Enqueue("kitchen_order", id, "update", 5)
              /\ broadcasts' = broadcasts \o AfterTransaction(TRUE, events)
              /\ frames' = Fanout(AfterTransaction(TRUE, events), NoFilter)
              /\ txlog' = TxSteps(TRUE, events)
              /\ reply' = Reply(BumpUrl, id, 200, TRUE)
     ELSE /\ UNCHANGED <<kitchen_orders, kitchen_order_items, sync_status,
                         outbox, hist, broadcasts, frames>>
          /\ txlog' = <<>>
          /\ reply' = Reply(BumpUrl, id, 200, FALSE)
  /\ UNCHANGED <<nextId, sales, guest_checks, cash_drawers, gift_cards, sale_items, payments, clients>>
  /\ UNCHANGED <<running, batch, cur, cloudApiUrl, cloudMode, cloudApplied,
                 pullVars, procVars, seqVars, authVars>>

\* POST /api/kitchen-orders/:orderId/items/:itemId/status: the item is
\* updated outside any transaction and nothing is enqueued.
UpdateItemStatus(id, status) ==
  /\ id \in DOMAIN kitchen_order_items
  /\ kitchen_order_items' = [kitchen_order_items EXCEPT ![id] = status]
  /\ txlog' = <<>>
  /\ reply' = Reply(<<"api", "kitchen-orders", "id", "items", "id", "status">>,
                    id, 200, TRUE)
  /\ UNCHANGED <<outbox, hist, nextId, sales, kitchen_orders, guest_checks, cash_drawers, gift_cards,
                 sync_status, sale_items, payments>>
  /\ UNCHANGED <<running, batch, cur, cloudApiUrl, cloudMode, cloudApplied,
                 pullVars, procVars, seqVars, broadcasts, clients, frames, authVars>>

\* The columns of the cash_drawers table.
CashDrawerColumns ==
  {"id", "tenant_id", "terminal_id", "user_id", "status", "opening_balance",
   "closing_balance", "expected_balance", "difference", "notes", "opened_at",
   "closed_at", "closed_by_id", "sync_status"}

\* The repository holds two versions of the cash drawer routes,
\* src/api/cash-drawers.ts ("api") and part_009; these are the columns their
\* INSERT and UPDATE statements name.
Builds == {"api", "part_009"}

OpenColumns(build) ==
  IF build = "api"
  THEN {"id", "terminal_id", "opened_by_id", "opened_by_name",
        "opening_amount", "status", "opened_at"}
  ELSE {"id", "tenant_id", "terminal_id", "user_id", "opening_balance",
        "status", "opened_at"}

CloseColumns(build) ==
  IF build = "api"
  THEN {"status", "closed_by_id", "closed_by_name", "closing_amount",
        "expected_amount", "difference", "closed_at", "sync_status", "id"}
  ELSE {"status", "closed_by_id", "closing_balance", "expected_balance",
        "difference", "closed_at", "sync_status", "id"}

\* prepare() of a statement on cash_drawers throws when it names a column the
\* table does not have.
Prepares(columns) == columns \subseteq CashDrawerColumns

OpenUrl == <<"api", "cash-drawers", "open">>
CloseUrl == <<"api", "cash-drawers", "id", "close">>

cashFrame ==
  /\ UNCHANGED <<sales, kitchen_orders, kitchen_order_items, guest_checks,
                 gift_cards, sync_status, sale_items, payments>>
  /\ UNCHANGED <<running, batch, cur, cloudApiUrl, cloudMode, cloudApplied,
                 pullVars, procVars, seqVars, broadcasts, clients, frames, authVars>>

\* POST /api/cash-drawers/open: the drawer and its outbox row are inserted in
\* one transaction.
OpenCashDrawer(build) ==
  /\ IF Prepares(OpenColumns(build))
     THEN /\ cash_drawers' = cash_drawers @@ (nextId :> "OPEN")
          /\ Enqueue("cash_drawer", nextId, "create", 5)
          /\ nextId' = nextId + 1
          /\ txlog' = TxSteps(TRUE, <<>>)
          /\ reply' = Reply(OpenUrl, nextId, 200, TRUE)
     ELSE /\ UNCHANGED <<cash_drawers, outbox, hist, nextId>>
          /\ txlog' = TxSteps(FALSE, <<>>)
          /\ reply' = Reply(OpenUrl, 0, 500, FALSE)
  /\ cashFrame

\* POST /api/cash-drawers/:id/close: 404 for an unknown drawer; otherwise the
\* drawer is set to CLOSED and a close row is enqueued in one transaction,
\* whatever the status the SELECT returned.
CloseCashDrawer(id, build) ==
  /\ IF id \notin DOMAIN cash_drawers
     THEN /\ UNCHANGED <<cash_drawers, outbox, hist>>
          /\ txlog' = <<>>
          /\ reply' = Reply(CloseUrl, id, 404, FALSE)
     ELSE IF Prepares(CloseColumns(build))
     THEN /\ cash_drawers' = [cash_drawers EXCEPT ![id] = "CLOSED"]
          /\ Enqueue("cash_drawer", id, "close", 5)
          /\ txlog' = TxSteps(TRUE, <<>>)
          /\ reply' = Reply(CloseUrl, id, 200, TRUE)
     ELSE /\ UNCHANGED <<cash_drawers, outbox, hist>>
          /\ txlog' = TxSteps(FALSE, <<>>)
          /\ reply' = Reply(CloseUrl, id, 500, FALSE)
  /\ UNCHANGED nextId
  /\ cashFrame

RedeemUrl == <<"api", "gift-cards", "redeem">>

\* POST /api/gift-cards/redeem: 404 for an unknown code, 400 for an inactive
\* card or an amount above the balance; otherwise the balance is lowered and
\* a redeem row enqueued in one transaction.
RedeemGiftCard(code, amount) ==
  /\ IF code \notin DOMAIN gift_cards
     THEN /\ UNCHANGED <<gift_cards, outbox, hist>>
          /\ txlog' = <<>>
          /\ reply' = Reply(RedeemUrl, code, 404, FALSE)
     ELSE IF gift_cards[code].is_active # 1
             \/ amount > gift_cards[code].current_balance
     THEN /\ UNCHANGED <<gift_cards, outbox, hist>>
          /\ txlog' = <<>>
          /\ reply' = Reply(RedeemUrl, code, 400, FALSE)
     ELSE /\ gift_cards' =
               [gift_cards EXCEPT
                  ![code].current_balance = gift_cards[code].current_balance - amount]
          /\ Enqueue("gift_card", code, "redeem", 10)
          /\ txlog' = TxSteps(TRUE, <<>>)
          /\ reply' = Reply(RedeemUrl, code, 200, TRUE)
  /\ UNCHANGED <<nextId, sales, kitchen_orders, kitchen_order_items,
                 guest_checks, cash_drawers, sync_status, sale_items, payments>>
  /\ UNCHANGED <<running, batch, cur, cloudApiUrl, cloudMode, cloudApplied,
                 pullVars, procVars, seqVars, broadcasts, clients, frames, authVars>>

\* POST /api/guest-checks
CreateGuestCheck ==
  /\ guest_checks' = guest_checks \cup {nextId}
  /\ Enqueue("guest_check", nextId, "create", 5)
  /\ nextId' = nextId + 1
  /\ txlog' = TxSteps(TRUE, <<>>)
  /\ reply' = Reply(<<"api", "guest-checks">>, nextId, 200, TRUE)
  /\ UNCHANGED <<sales, kitchen_orders, kitchen_order_items, sync_status,
                 sale_items, payments, cash_drawers, gift_cards>>
  /\ UNCHANGED <<running, batch, cur, cloudApiUrl, cloudMode, cloudApplied,
                 pullVars, procVars, seqVars, broadcasts, clients, frames, authVars>>

PushUrl == <<"api", "sync", "push">>
PullUrl == <<"api", "sync", "pull">>

\* POST /api/sync/push: processOutbox() called by the route.  While a drain
\* runs (or with no cloud configured) the call returns the zero result at
\* once and the route answers with it; otherwise the call starts a drain as a
\* timer tick does, and the answer is sent once that drain has ended.
SyncPush ==
  IF running \/ ~isConfigured
  THEN /\ reply' = Reply(PushUrl, 0, 200, TRUE)
       /\ txlog' = <<>>
       /\ UNCHANGED <<pushVars, storeVars, pullVars, procVars, seqVars, broadcasts, clients, frames,
                      authVars>>
  ELSE ProcessOutbox

\* ------------------------------------------------- sessions and PIN limit

PIN_RATE_LIMIT == 10
PIN_RATE_WINDOW_MS == 5 * 60 * 1000

\* The source addresses that send PIN requests.
ClientIps == {"ip1", "ip2"}

\* The PINs sent: none, one too short, a wrong one and the PIN of user u1.
UserPin == <<1, 2, 3, 4>>
Pins == {<<>>, <<1, 2, 3>>, <<9, 9, 9, 9>>, UserPin}

\* !pin || pin.length < 4 || pin.length > 10
Malformed(pin) == Len(pin) = 0 \/ Len(pin) < 4 \/ Len(pin) > 10

NoEntry == [count |-> 0, resetAt |-> 0]

\* checkPinRateLimit(ip), on ip's entry at time t: the entry it leaves and
\* its result.
checkPinRateLimit_CountsFromZero(entry, t) ==
  IF entry = NoEntry \/ t >= entry.resetAt
  THEN [entry |-> [count |-> 0, resetAt |-> t + PIN_RATE_WINDOW_MS],
        allowed |-> TRUE]
  ELSE [entry |-> [entry EXCEPT !.count = @ + 1],
        allowed |-> entry.count + 1 <= PIN_RATE_LIMIT]
checkPinRateLimit(entry, t) ==
  IF entry = NoEntry \/ t >= entry.resetAt
  THEN [entry |-> [count |-> 1, resetAt |-> t + PIN_RATE_WINDOW_MS],
        allowed |-> TRUE]
  ELSE [entry |-> [entry EXCEPT !.count = @ + 1],
        allowed |-> entry.count + 1 <= PIN_RATE_LIMIT]

\* The last n elements of s.
Last(s, n) == IF Len(s) <= n THEN s ELSE SubSeq(s, Len(s) - n + 1, Len(s))

\* A URL is its path segments, then "?" and the query if it has one.
PinUrl == <<"api", "auth", "pin">>
LogoutUrl == <<"api", "auth", "logout">>
SessionUrl == <<"api", "auth", "session">>

PUBLIC_ROUTES ==
  {<<"health">>, PinUrl, SessionUrl, <<"api", "bootstrap">>, <<"ws">>}

\* The prefixes that end with "/" ask for a further segment.
PUBLIC_PREFIXES ==
  {[segments |-> <<"api", "setup">>, slash |-> TRUE],
   [segments |-> <<"api", "diagnostics">>, slash |-> FALSE],
   [segments |-> <<"api", "sync">>, slash |-> TRUE],
   [segments |-> <<"api", "hub">>, slash |-> TRUE],
   [segments |-> <<"api", "terminals">>, slash |-> TRUE],
   [segments |-> <<"setup">>, slash |-> FALSE]}

\* url.split("?")[0]
Path(url) ==
  IF \E k \in DOMAIN url : url[k] = "?"
  THEN SubSeq(url, 1, (CHOOSE k \in DOMAIN url :
                         url[k] = "?" /\ \A j \in 1..(k - 1) : url[j] # "?") - 1)
  ELSE url

\* path.startsWith(prefix), segment by segment
StartsWith(path, prefix) ==
  /\ Len(path) >= Len(prefix.segments) + (IF prefix.slash THEN 1 ELSE 0)
  /\ SubSeq(path, 1, Len(prefix.segments)) = prefix.segments

isPublicRoute(url) ==
  LET path == Path(url)
  IN  \/ path \in PUBLIC_ROUTES
      \/ \E prefix \in PUBLIC_PREFIXES : StartsWith(path, prefix)

\* SELECT ... FROM terminal_sessions WHERE id = ? AND is_active = 1
ActiveSession(sid) ==
  sid \in DOMAIN terminal_sessions /\ terminal_sessions[sid].is_active

\* The onRequest hook on a request with x-session-id sid (0: no header): the
\* status it sends, or 0 when it lets the request through to its handler.
onRequest_AnyHeader(url, sid) ==
  IF isPublicRoute(url) THEN 0
  ELSE IF sid = 0 THEN 401
  ELSE 0
onRequest(url, sid) ==
  IF isPublicRoute(url) THEN 0
  ELSE IF sid = 0 THEN 401
  ELSE IF ~ActiveSession(sid) THEN 401
  ELSE 0

\* POST /api/auth/pin from ip, with terminalId "none" when the request names
\* no terminal.
PinAuth(ip, pin, terminalId) ==
  /\ onRequest(PinUrl, 0) = 0
  /\ (~Malformed(pin) /\ clock < pinAttempts[ip].resetAt)
       => pinAttempts[ip].count < PIN_RATE_LIMIT + MaxOverLimit
  /\ pin = UserPin => nextId <= MaxSessions
  /\ LET answer(status, sessionId) ==
           [url |-> PinUrl, id |-> 0, sid |-> 0, ip |-> ip, pin |-> pin, status |-> status,
            success |-> status = 200, by |-> "handler", sessionId |-> sessionId]
         limit == checkPinRateLimit(pinAttempts[ip], clock)
     IN  IF Malformed(pin)
         THEN /\ reply' = answer(400, 0)
              /\ UNCHANGED <<pinAttempts, pinLog, pinPassed, nextId,
                             terminal_sessions>>
         ELSE /\ pinAttempts' = [pinAttempts EXCEPT ![ip] = limit.entry]
              /\ pinLog' = [pinLog EXCEPT
                              ![ip] = Last(Append(@, clock), PIN_RATE_LIMIT)]
              /\ pinPassed' = IF limit.allowed
                              THEN [pinPassed EXCEPT
                                      ![ip] = Last(Append(@, clock),
                                                   PIN_RATE_LIMIT + 1)]
                              ELSE pinPassed
              /\ IF ~limit.allowed
                 THEN /\ reply' = answer(429, 0)
                      /\ UNCHANGED <<nextId, terminal_sessions>>
                 ELSE IF pin # UserPin
                 THEN /\ reply' = answer(401, 0)
                      /\ UNCHANGED <<nextId, terminal_sessions>>
                 ELSE /\ reply' = answer(200, nextId)
                      /\ nextId' = nextId + 1
                      /\ terminal_sessions' =
                           IF terminalId # "none" /\ terminalId \in terminals
                           THEN terminal_sessions @@
                                  (nextId :> [terminal_id |-> terminalId,
                                              user_id |-> "u1",
                                              is_active |-> TRUE])
                           ELSE terminal_sessions
  /\ txlog' = <<>>
  /\ UNCHANGED <<clock, terminals, sales, kitchen_orders, kitchen_order_items,
                 guest_checks, cash_drawers, gift_cards, sync_status, sale_items, payments, pushVars,
                 pullVars, procVars, seqVars, broadcasts, clients, frames>>

\* The routes requests are sent to besides POST /api/auth/pin.
Urls ==
  {<<"health">>, <<"api", "sales">>, <<"api", "sales", "?", "api", "sync", "x">>,
   <<"api", "sync", "status">>, <<"api", "sync">>, LogoutUrl, SessionUrl}

\* A request to url with x-session-id sid (0: no header): the hook, and the
\* handler of the route if the hook lets the request through.  The handlers
\* of the routes other than logout read the store and answer 200.
HttpRequest(url, sid) ==
  /\ LET answer(status, by) ==
           [url |-> url, id |-> 0, sid |-> sid, ip |-> "none", pin |-> <<>>, status |-> status,
            success |-> status = 200, by |-> by, sessionId |-> 0]
         hook == onRequest(url, sid)
     IN  IF hook # 0
         THEN reply' = answer(hook, "hook") /\ UNCHANGED terminal_sessions
         ELSE IF Path(url) = LogoutUrl
         THEN /\ reply' = answer(200, "handler")
              /\ terminal_sessions' =
                   [s \in DOMAIN terminal_sessions |->
                      IF s = sid
                      THEN [terminal_sessions[s] EXCEPT !.is_active = FALSE]
                      ELSE terminal_sessions[s]]
         ELSE IF Path(url) = SessionUrl
         THEN /\ reply' = answer(IF ActiveSession(sid) THEN 200 ELSE 401,
                                 "handler")
              /\ UNCHANGED terminal_sessions
         ELSE reply' = answer(200, "handler") /\ UNCHANGED terminal_sessions
  /\ txlog' = <<>>
  /\ UNCHANGED <<clock, pinAttempts, pinLog, pinPassed, terminals, pushVars, storeVars,
                 pullVars, procVars, seqVars, broadcasts, clients, frames>>

\* POST /api/terminals/:id/deregister.  The route is public, so the hook lets
\* every request through.  The handler ends the active sessions of the
\* terminal and then deletes the terminal, two statements outside any
\* transaction; terminal_sessions.terminal_id references terminals(id) and
\* foreign keys are on, so the DELETE throws while a session row of the
\* terminal exists and the request ends with 500.  The cloud is notified
\* afterwards, which changes nothing on the hub.
DeregisterUrl(id) == <<"api", "terminals", id, "deregister">>

SessionsOf(id) ==
  {s \in DOMAIN terminal_sessions : terminal_sessions[s].terminal_id = id}

Deregister_KeepsSessions(id, sid) ==
  /\ onRequest(DeregisterUrl(id), sid) = 0
  /\ LET answer(status) ==
           [url |-> DeregisterUrl(id), id |-> 0, sid |-> sid, ip |-> "none",
            pin |-> <<>>, status |-> status, success |-> status = 200,
            by |-> "handler", sessionId |-> 0]
     IN  IF id \notin terminals
         THEN /\ reply' = answer(404)
              /\ UNCHANGED <<terminals, terminal_sessions>>
         ELSE /\ UNCHANGED terminal_sessions
              /\ IF SessionsOf(id) # {}
                 THEN reply' = answer(500) /\ UNCHANGED terminals
                 ELSE reply' = answer(200) /\ terminals' = terminals \ {id}
  /\ txlog' = <<>>
  /\ UNCHANGED <<clock, pinAttempts, pinLog, pinPassed, pushVars, storeVars,
                 pullVars, procVars, seqVars, broadcasts, clients, frames>>
Deregister(id, sid) ==
  /\ onRequest(DeregisterUrl(id), sid) = 0
  /\ LET answer(status) ==
           [url |-> DeregisterUrl(id), id |-> 0, sid |-> sid, ip |-> "none",
            pin |-> <<>>, status |-> status, success |-> status = 200,
            by |-> "handler", sessionId |-> 0]
     IN  IF id \notin terminals
         THEN /\ reply' = answer(404)
              /\ UNCHANGED <<terminals, terminal_sessions>>
         ELSE /\ terminal_sessions' =
                   [s \in DOMAIN terminal_sessions |->
                      IF terminal_sessions[s].terminal_id = id
                      THEN [terminal_sessions[s] EXCEPT !.is_active = FALSE]
                      ELSE terminal_sessions[s]]
              /\ IF SessionsOf(id) # {}
                 THEN reply' = answer(500) /\ UNCHANGED terminals
                 ELSE reply' = answer(200) /\ terminals' = terminals \ {id}
  /\ txlog' = <<>>
  /\ UNCHANGED <<clock, pinAttempts, pinLog, pinPassed, pushVars, storeVars,
                 pullVars, procVars, seqVars, broadcasts, clients, frames>>

\* The columns of the terminals table.
TerminalColumns ==
  {"id", "tenant_id", "location_id", "name", "device_type", "last_seen_at",
   "ip_address", "status", "current_user_id", "current_user_name",
   "app_version", "created_at"}

\* terminals.device_type, as POST /api/terminals/register stored it from
\* body.deviceType: t1 is a point of sale, t2 a kitchen display.
device_type == [t1 |-> "POS", t2 |-> "KDS"]

\* db.prepare("SELECT <column> FROM terminals WHERE id = ?").get(id): prepare
\* throws on a column the table does not have; get returns undefined when no
\* row has the id.
SelectFromTerminals(column, id) ==
  IF column \notin TerminalColumns
  THEN [thrown |-> TRUE, value |-> "undefined"]
  ELSE [thrown |-> FALSE,
        value |-> IF id \notin terminals THEN "undefined"
                  ELSE IF column = "device_type" THEN device_type[id]
                  ELSE "set"]

\* String.prototype.toLowerCase on the device types.
toLowerCase(str) ==
  CASE str = "POS" -> "pos"
    [] str = "KDS" -> "kds"
    [] str = "ADMIN" -> "admin"
    [] OTHER -> str

\* The role the /ws handler gives a peer: "pos", unless the query names a
\* terminal whose type the SELECT returns; an exception of the SELECT is
\* caught and leaves "pos".
ResolveRole(terminalId) ==
  IF terminalId = "none" THEN "pos"
  ELSE LET terminal == SelectFromTerminals("type", terminalId)
       IN  IF ~terminal.thrown /\ terminal.value # "undefined"
           THEN toLowerCase(terminal.value)
           ELSE "pos"

wsFrame ==
  UNCHANGED <<pushVars, storeVars, pullVars, procVars, seqVars, broadcasts, txlog,
              reply, authVars>>

\* GET /ws?terminalId=...&role=...: a peer connects.  The role in the query
\* is not read.  The welcome frame goes to the new socket only.
Connect(terminalId, queryRole) ==
  /\ \E clientId \in 1..MaxClients :
       /\ clientId \notin DOMAIN clients
       /\ clients' = clients @@
            (clientId :> [terminalId |-> terminalId,
                          role |-> ResolveRole(terminalId),
                          readyState |-> OPEN])
  /\ UNCHANGED frames
  /\ wsFrame

\* The socket of a peer leaves OPEN (the peer went away); its close event
\* has not been handled yet.
SocketCloses(clientId) ==
  /\ clientId \in DOMAIN clients
  /\ clients[clientId].readyState = OPEN
  /\ clients' = [clients EXCEPT ![clientId].readyState = CLOSING]
  /\ UNCHANGED frames
  /\ wsFrame

\* socket.on("close") and socket.on("error"): clients.delete(clientId)
Close(clientId) ==
  /\ clientId \in DOMAIN clients
  /\ clients[clientId].readyState # OPEN
  /\ clients' = [c \in DOMAIN clients \ {clientId} |-> clients[c]]
  /\ UNCHANGED frames
  /\ wsFrame

\* The events peers send; "none" is a message without an event field.
PeerEvents ==
  {"none", "ping", "order:status", "order:created", "order:voided",
   "drawer:opened", "chat"}

\* socket.on("message") for a message of the peer clientId.
Message(clientId, event) ==
  /\ clientId \in DOMAIN clients
  /\ clients[clientId].readyState = OPEN
  /\ frames' =
       CASE event \in {"none", "ping"} -> frames
         [] event = "order:created" -> broadcast(event, RoleFilter("kds"))
         [] event = "order:voided" -> broadcast(event, NoFilter)
         [] event = "drawer:opened" -> broadcast(event, RoleFilter("admin"))
         [] OTHER -> broadcast(event, ExcludeFilter(clientId))
  /\ UNCHANGED clients
  /\ wsFrame

\* Date.now() advances by half a rate-limit window.
ClockTick ==
  /\ clock < MaxClockTicks * (PIN_RATE_WINDOW_MS \div 2)
  /\ clock' = clock + PIN_RATE_WINDOW_MS \div 2
  /\ UNCHANGED <<pinAttempts, pinLog, pinPassed, terminals, terminal_sessions, pushVars,
                 storeVars, pullVars, procVars, seqVars, wsVars, reply>>

\* The interval timer that deletes the expired entries of pinAttempts.
CleanupPinAttempts ==
  /\ \E ip \in ClientIps :
       pinAttempts[ip] # NoEntry /\ clock >= pinAttempts[ip].resetAt
  /\ pinAttempts' = [ip \in ClientIps |->
                       IF clock >= pinAttempts[ip].resetAt THEN NoEntry
                       ELSE pinAttempts[ip]]
  /\ UNCHANGED <<clock, pinLog, pinPassed, terminals, terminal_sessions, pushVars,
                 storeVars, pullVars, procVars, seqVars, wsVars, reply>>

\* ---------------------------------------------------------- the pull engine

\* runFullSync's plan: the entity types in the order they are pulled.
entities ==
  <<"categories", "products", "product_variants", "tax_types", "location_taxes",
    "location_category_taxes", "customers", "modifier_groups", "modifiers",
    "product_modifier_groups", "discount_templates", "gift_cards",
    "coupon_codes", "deals", "deal_items", "deal_time_restrictions",
    "deal_size_prices", "users", "location_settings", "terminal_settings",
    "floors", "areas", "tables", "courses", "note_presets",
    "location_product_overrides", "pizza_size_prices", "pizza_topping_prices",
    "pizza_crust_prices", "pizza_sauce_prices", "pizza_cheese_prices",
    "pizza_size_order_type_prices", "pizza_location_config", "roles",
    "inventory_levels", "post_codes", "customer_addresses",
    "category_schedules", "price_schedules", "deal_size_order_type_prices",
    "location_business_hours", "web_order_settings", "caller_id_config",
    "caller_id_lines", "cash_drawers", "cash_drawer_transactions",
    "staff_banks", "staff_bank_transactions", "store_credits",
    "kitchen_orders", "kitchen_order_items", "sales", "sale_items">>

\* The tables a handler writes after the table of its own name, from the
\* objects embedded in its rows: pullProducts writes the order type prices and
\* the pizza product config of a product, pullPizzaLocationConfig the arrays
\* of the config's data blob.
CompanionTables(name) ==
  CASE name = "products" -> <<"product_order_type_prices", "pizza_product_configs">>
    [] name = "pizza_location_config" ->
         <<"pizza_sizes", "pizza_crusts", "pizza_sauces", "pizza_cheeses",
           "pizza_topping_categories", "pizza_toppings">>
    [] OTHER -> <<>>

\* The id columns of the written tables that hold the id of a row of another
\* written table: <<referencing table, referenced table>>.
References ==
  {<<"products", "categories">>,
   <<"product_order_type_prices", "products">>,
   <<"pizza_product_configs", "products">>,
   <<"pizza_product_configs", "pizza_sizes">>,
   <<"pizza_product_configs", "pizza_crusts">>,
   <<"product_variants", "products">>,
   <<"location_taxes", "tax_types">>,
   <<"location_category_taxes", "categories">>,
   <<"location_category_taxes", "tax_types">>,
   <<"modifiers", "modifier_groups">>,
   <<"modifiers", "products">>,
   <<"product_modifier_groups", "products">>,
   <<"product_modifier_groups", "modifier_groups">>,
   <<"deals", "categories">>,
   <<"deal_items", "deals">>,
   <<"deal_items", "products">>,
   <<"deal_items", "categories">>,
   <<"deal_items", "product_variants">>,
   <<"deal_time_restrictions", "deals">>,
   <<"deal_size_prices", "deals">>,
   <<"deal_size_prices", "pizza_sizes">>,
   <<"areas", "floors">>,
   <<"tables", "floors">>,
   <<"tables", "areas">>,
   <<"location_product_overrides", "products">>,
   <<"location_product_overrides", "product_variants">>,
   <<"pizza_size_prices", "pizza_sizes">>,
   <<"pizza_size_prices", "products">>,
   <<"pizza_topping_prices", "pizza_toppings">>,
   <<"pizza_topping_prices", "pizza_sizes">>,
   <<"pizza_topping_prices", "products">>,
   <<"pizza_crust_prices", "pizza_crusts">>,
   <<"pizza_crust_prices", "pizza_sizes">>,
   <<"pizza_crust_prices", "products">>,
   <<"pizza_sauce_prices", "pizza_sauces">>,
   <<"pizza_sauce_prices", "pizza_sizes">>,
   <<"pizza_sauce_prices", "products">>,
   <<"pizza_cheese_prices", "pizza_cheeses">>,
   <<"pizza_cheese_prices", "pizza_sizes">>,
   <<"pizza_cheese_prices", "products">>,
   <<"pizza_size_order_type_prices", "pizza_size_prices">>,
   <<"pizza_toppings", "pizza_topping_categories">>,
   <<"inventory_levels", "product_variants">>,
   <<"customer_addresses", "customers">>,
   <<"category_schedules", "categories">>,
   <<"price_schedules", "products">>,
   <<"price_schedules", "product_variants">>,
   <<"deal_size_order_type_prices", "deal_size_prices">>,
   <<"cash_drawers", "users">>,
   <<"cash_drawer_transactions", "cash_drawers">>,
   <<"cash_drawer_transactions", "users">>,
   <<"staff_banks", "users">>,
   <<"staff_bank_transactions", "staff_banks">>,
   <<"staff_bank_transactions", "users">>,
   <<"store_credits", "customers">>,
   <<"store_credits", "users">>,
   <<"kitchen_order_items", "kitchen_orders">>,
   <<"kitchen_order_items", "products">>,
   <<"kitchen_order_items", "product_variants">>,
   <<"kitchen_order_items", "courses">>,
   <<"sales", "customers">>,
   <<"sales", "coupon_codes">>,
   <<"sales", "users">>,
   <<"sale_items", "sales">>,
   <<"sale_items", "products">>,
   <<"sale_items", "product_variants">>,
   <<"caller_id_lines", "caller_id_config">>}

Range(seq) == {seq[k] : k \in DOMAIN seq}

\* The handlers that read their sync_state row and send its last_synced_at
\* as sinceVersion.
CursorEntities ==
  {"categories", "products", "product_variants", "customers", "users",
   "kitchen_orders", "sales", "caller_id_config", "caller_id_lines"}

\* The handlers that fetch through fetchAndTransform, which turns a 404 into
\* an empty list of rows and throws on every other failure.
FetchAndTransformEntities ==
  {"categories", "product_variants", "tax_types", "location_taxes",
   "location_category_taxes", "customers", "modifier_groups", "modifiers",
   "product_modifier_groups", "deal_time_restrictions", "deal_size_prices",
   "note_presets", "location_product_overrides",
   "pizza_size_order_type_prices", "roles", "inventory_levels", "post_codes",
   "customer_addresses", "category_schedules", "price_schedules",
   "deal_size_order_type_prices", "location_business_hours",
   "caller_id_config", "caller_id_lines", "cash_drawers",
   "cash_drawer_transactions", "staff_banks", "staff_bank_transactions",
   "store_credits"}

\* The handlers that write their table through replaceTable.
ReplaceEntities ==
  {"pizza_topping_prices", "pizza_crust_prices", "pizza_sauce_prices",
   "pizza_cheese_prices"}

\* The entity types the cloud holds rows for; every other endpoint answers
\* with an empty list.  Rows of products and of pizza_location_config carry
\* their embedded objects.
CloudEntities ==
  {"categories", "products", "pizza_size_prices", "pizza_topping_prices",
   "pizza_cheese_prices", "pizza_location_config"}

\* The ids of the rows of one entity type, in the order the cloud lists them.
RowIds == <<"r1">>

\* The local tables the rows of CloudEntities are written to.
CloudTables ==
  UNION {{e} \cup Range(CompanionTables(e)) : e \in CloudEntities}

NoFault == [name |-> "none", status |-> 200]
NoRequest == [name |-> "none", sinceVersion |-> 0]
NoAnswer == [name |-> "none", rows |-> <<>>]
\* getSyncState's answer for an entity type without a row: last_synced_at
\* null (0 here; the clock starts at 1).
NoSyncState == [status |-> "none", last_synced_at |-> 0, record_count |-> 0]

getSyncState(entityType) == sync_state[entityType]

\* The request a handler sends: sinceVersion is set when the handler is
\* cursor-based and its last_synced_at is not null (0: no sinceVersion).
\* pullTerminalSettings sends no request while no terminal is registered.
SendRequest(pos, ss) ==
  IF pos = 0 \/ entities[pos] = "terminal_settings" THEN NoRequest
  ELSE [name |-> entities[pos],
        sinceVersion |-> IF entities[pos] \in CursorEntities
                         THEN ss[entities[pos]].last_synced_at ELSE 0]

\* The status the cloud answers a handler's request with.
ResponseStatus(name) ==
  IF cloudMode = "fail500" THEN 500
  ELSE IF cloudFault.name = name THEN cloudFault.status
  ELSE 200

\* The outbox rows of the redeems of card `id` the cloud has applied.
AppliedRedeems(id) ==
  {i \in DOMAIN outbox :
     /\ outbox[i].entity_type = "gift_card" /\ outbox[i].action = "redeem"
     /\ outbox[i].entity_id = id /\ hist[i].applied > 0}

\* The cloud's answer to GET /api/hub/sync/gift-cards: every card it holds,
\* with the balance the redeems pushed so far have left.
GiftCardRows ==
  [k \in 1..Cardinality(DOMAIN cloudGiftCards) |->
     [id |-> k - 1,
      current_balance |-> cloudGiftCards[k - 1].current_balance
                            - RedeemAmount * Cardinality(AppliedRedeems(k - 1)),
      is_active |-> cloudGiftCards[k - 1].is_active]]

\* upsertRows("gift_cards", rows, [..., "current_balance", "is_active", ...])
UpsertGiftCards(cards, rows) ==
  [id \in DOMAIN cards \cup {rows[k].id : k \in DOMAIN rows} |->
     IF \E k \in DOMAIN rows : rows[k].id = id
     THEN LET row == rows[CHOOSE k \in DOMAIN rows : rows[k].id = id]
          IN  [current_balance |-> row.current_balance,
               is_active |-> row.is_active]
     ELSE cards[id]]

\* The rows of a 2xx answer: all rows of the entity type, or with a
\* sinceVersion those with updatedAt > sinceVersion.
CloudRows(name, sinceVersion) ==
  IF name = "gift_cards" THEN GiftCardRows
  ELSE IF name \notin CloudEntities THEN <<>>
  ELSE LET ids == SelectSeq(RowIds, LAMBDA id : cloud[name][id] > sinceVersion)
       IN  [k \in DOMAIN ids |-> [id |-> ids[k], updated_at |-> cloud[name][ids[k]]]]

\* INSERT ... ON CONFLICT(id) DO UPDATE SET every other column
UpsertRow_PlainInsert(tbl, row) == Append(tbl, row)
UpsertRow(tbl, row) ==
  IF \E k \in DOMAIN tbl : tbl[k].id = row.id
  THEN [k \in DOMAIN tbl |-> IF tbl[k].id = row.id THEN row ELSE tbl[k]]
  ELSE Append(tbl, row)

\* upsertRows: nothing for an empty list, else every row in turn.
RECURSIVE upsertRows(_, _)
upsertRows(tbl, rows) ==
  IF rows = <<>> THEN tbl
  ELSE upsertRows(UpsertRow(tbl, Head(rows)), Tail(rows))

\* replaceTable: nothing for an empty list, else DELETE the whole table and
\* INSERT the rows, in one transaction.
replaceTable(tbl, rows) ==
  IF rows = <<>> THEN tbl ELSE upsertRows(<<>>, rows)

\* The tables a handler writes for the rows of its answer, in order.
TablesWritten(name, rows) ==
  IF rows = <<>> THEN <<>> ELSE <<name>> \o CompanionTables(name)

\* The local tables after the handler of `name` has written `rows`.
WriteTables(tbls, name, rows) ==
  [t \in DOMAIN tbls |->
     IF t = name
     THEN IF name \in ReplaceEntities THEN replaceTable(tbls[t], rows)
          ELSE upsertRows(tbls[t], rows)
     ELSE IF t \in Range(CompanionTables(name)) THEN upsertRows(tbls[t], rows)
     ELSE tbls[t]]

\* Whether the handler goes on past its check of the answer: on a 2xx, and
\* through fetchAndTransform also on a 404.
Proceeds(name, status) ==
  /\ name # "terminal_settings"
  /\ \/ status = 200
     \/ status = 404 /\ name \in FetchAndTransformEntities

\* Whether a handler that goes on reaches its updateSyncState: not
\* pullLocationSettings without a settings object, and never
\* pullPizzaCheesesPrices, whose updateSyncState reads an undeclared variable
\* and throws.
ReachesUpdateSyncState(name, status) ==
  /\ Proceeds(name, status)
  /\ name \notin {"pizza_cheese_prices", "location_settings"}

\* The handlers that call the cloud client themselves and test the status
\* for 404.
NotFoundEntities ==
  {"deal_items", "pizza_size_prices", "pizza_topping_prices",
   "pizza_crust_prices", "pizza_sauce_prices", "pizza_cheese_prices",
   "pizza_location_config", "web_order_settings", "kitchen_orders",
   "kitchen_order_items", "sales", "sale_items"}

NoResult == [entity |-> "none", pulled |-> 0, errors |-> <<>>]

\* The PullResult runFullSync records for an entity: what the handler
\* returns, or on a throw the loop's { pulled: 0, errors: [msg] }.
\* fetchAndTransform returns no rows on a 404 and throws on any other
\* failure; the handlers of NotFoundEntities return without errors on a 404;
\* every other handler returns the failure as an error whatever its status.
PullResult(name, status, rows) ==
  IF name = "terminal_settings"
  THEN [entity |-> name, pulled |-> 0, errors |-> <<>>]
  ELSE IF status = 404 /\ name \in FetchAndTransformEntities \cup NotFoundEntities
  THEN [entity |-> name, pulled |-> 0, errors |-> <<>>]
  ELSE IF status # 200
  THEN [entity |-> name, pulled |-> 0, errors |-> <<"HTTP error">>]
  ELSE IF name = "pizza_cheese_prices"
  THEN [entity |-> name, pulled |-> 0, errors |-> <<"count is not defined">>]
  ELSE [entity |-> name, pulled |-> Len(rows), errors |-> <<>>]

\* The deletedIds of the answer to the request of `name`.
NoDeletedIds == [sales |-> <<>>, kitchen_orders |-> <<>>]

DeletedIds(name) ==
  IF name \in DOMAIN cloudDeleted THEN cloudDeleted[name] ELSE <<>>

\* The rows of the store the deletions touch.
Store ==
  [sales |-> sales, sale_items |-> sale_items,
   kitchen_orders |-> kitchen_orders,
   kitchen_order_items |-> kitchen_order_items, sync_status |-> sync_status,
   thrown |-> FALSE]

\* f without its row id.
Without(f, id) == [x \in DOMAIN f \ {id} |-> f[x]]

\* "Handle deletions" of pullSales and pullKitchenOrders: for each deleted id
\* one DELETE of the child rows and one DELETE of the row, each committed on
\* its own.  payments.sale_id references sales(id) with foreign keys enforced,
\* so the DELETE of a sale that has payment rows throws; the throw leaves the
\* handler, and what was deleted before it stays deleted.
RECURSIVE deleteFrom(_, _, _)
deleteFrom(st, name, ids) ==
  IF ids = <<>> \/ st.thrown THEN st
  ELSE LET id == Head(ids)
       IN  IF name = "sales"
           THEN IF id \in DOMAIN st.sales /\ id \in payments
                THEN [st EXCEPT !.sale_items = @ \ {id}, !.thrown = TRUE]
                ELSE deleteFrom(
                       [st EXCEPT !.sale_items = @ \ {id},
                                  !.sales = Without(@, id),
                                  !.sync_status =
                                     IF id \in DOMAIN st.sales
                                     THEN Without(@, id) ELSE @],
                       name, Tail(ids))
           ELSE deleteFrom(
                  [st EXCEPT !.kitchen_order_items = Without(@, id),
                             !.kitchen_orders = Without(@, id),
                             !.sync_status =
                                IF id \in DOMAIN st.kitchen_orders
                                THEN Without(@, id) ELSE @],
                  name, Tail(ids))

deleteRows(name, ids) == deleteFrom(Store, name, ids)

\* updateSyncState(entityType, recordCount)
updateSyncState(ss, entityType, recordCount) ==
  [ss EXCEPT ![entityType] = [status |-> "SUCCESS", last_synced_at |-> now,
                              record_count |-> recordCount]]

\* runFullSync up to the first request.  With a malformed cloud URL every
\* handler throws before it suspends and the cycle ends at once.
runFullSync ==
  /\ ~pullRunning
  /\ isConfigured
  /\ upserted' = <<>>
  /\ IF cloudApiUrl = "malformed"
     THEN /\ plan_pos' = 0 /\ pullRunning' = FALSE /\ request' = NoRequest
          /\ results' = [e \in Range(entities) |-> PullResult(e, 0, <<>>)]
     ELSE /\ plan_pos' = 1 /\ pullRunning' = TRUE
          /\ request' = SendRequest(1, sync_state)
          /\ results' = [e \in Range(entities) |-> NoResult]
  /\ UNCHANGED <<sync_state, tables, cloud, cloudFault, cloudGiftCards, pending, now, pulledSinceChange,
                 cloudDeleted, pushVars, procVars, storeVars, apiVars>>

\* The handler of the entity at plan_pos runs to its end on the answer to its
\* request (the answer in flight, or else one the cloud gives at this moment),
\* and runFullSync goes on to the next entity's request or finishes the cycle.
PullEntity ==
  /\ pullRunning
  /\ plan_pos \in DOMAIN entities
  /\ LET name == entities[plan_pos]
         status == ResponseStatus(name)
         rows == IF status # 200 THEN <<>>
                 ELSE IF pending.name = name THEN pending.rows
                 ELSE CloudRows(name, request.sinceVersion)
         goesOn == Proceeds(name, status)
         deleted == IF goesOn THEN deleteRows(name, DeletedIds(name))
                    ELSE Store
         ss == IF ReachesUpdateSyncState(name, status) /\ ~deleted.thrown
               THEN updateSyncState(sync_state, name, Len(rows))
               ELSE sync_state
         next == IF plan_pos = Len(entities) THEN 0 ELSE plan_pos + 1
     IN  /\ tables' = IF goesOn THEN WriteTables(tables, name, rows) ELSE tables
         /\ upserted' = IF goesOn THEN upserted \o TablesWritten(name, rows)
                        ELSE upserted
         /\ sales' = deleted.sales
         /\ sale_items' = deleted.sale_items
         /\ kitchen_orders' = deleted.kitchen_orders
         /\ kitchen_order_items' = deleted.kitchen_order_items
         /\ sync_status' = deleted.sync_status
         /\ gift_cards' = IF goesOn /\ name = "gift_cards"
                          THEN UpsertGiftCards(gift_cards, rows)
                          ELSE gift_cards
         /\ sync_state' = ss
         /\ plan_pos' = next
         /\ pullRunning' = (next # 0)
         /\ request' = SendRequest(next, ss)
         /\ pending' = NoAnswer
         /\ pulledSinceChange' = (next = 0 \/ pulledSinceChange)
         /\ results' =
              [results EXCEPT
                 ![name] = IF deleted.thrown
                           THEN [entity |-> name, pulled |-> 0,
                                 errors |-> <<"FOREIGN KEY constraint failed">>]
                           ELSE PullResult(name, status, rows)]
  /\ UNCHANGED <<cloud, cloudFault, cloudGiftCards, now, cloudDeleted, pushVars, procVars, nextId,
                 guest_checks, cash_drawers, payments, apiVars>>

\* POST /api/sync/pull: runFullSync() called by the route.  While a cycle
\* runs (or with no cloud configured) the call returns [] at once and the
\* route answers with it; otherwise the call starts a cycle as a timer tick
\* does, and the answer is sent once that cycle has ended.
SyncPull ==
  IF pullRunning \/ ~isConfigured
  THEN /\ reply' = Reply(PullUrl, 0, 200, TRUE)
       /\ txlog' = <<>>
       /\ UNCHANGED <<pushVars, storeVars, pullVars, procVars, seqVars, broadcasts, clients, frames,
                      authVars>>
  ELSE runFullSync

\* The cloud reads the rows the request in flight asks for and sends them:
\* the handler's `await cloudClient.get(...)` is still pending.
CloudAnswers ==
  /\ pullRunning
  /\ plan_pos \in DOMAIN entities
  /\ pending = NoAnswer
  /\ pending' = [name |-> entities[plan_pos],
                 rows |-> CloudRows(entities[plan_pos], request.sinceVersion)]
  /\ UNCHANGED <<plan_pos, upserted, pullRunning, sync_state, tables, cloud,
                 cloudFault, cloudGiftCards, now, request, pulledSinceChange, results,
                 cloudDeleted, pushVars, procVars, storeVars, apiVars>>

\* The cloud creates or updates a row of the entity whose answer is in flight
\* (updatedAt = now), and the clock moves on before the answer reaches the
\* handler.
CloudWriteInFlight(name, id) ==
  /\ pullRunning
  /\ pending.name = name
  /\ now < MaxTime
  /\ cloud' = [cloud EXCEPT ![name][id] = now]
  /\ now' = now + 1
  /\ pulledSinceChange' = FALSE
  /\ UNCHANGED <<plan_pos, upserted, pullRunning, sync_state, tables,
                 cloudFault, cloudGiftCards, pending, request, results, cloudDeleted, pushVars,
                 procVars, storeVars, apiVars>>

\* The cloud creates or updates a row (updatedAt = now) while no cycle runs.
CloudWrite(name, id) ==
  /\ ~pullRunning
  /\ cloud[name][id] # now
  /\ Cardinality({e \in CloudEntities : e = name \/ \E r \in Range(RowIds) : cloud[e][r] > 0})
       <= MaxPulled
  /\ cloud' = [cloud EXCEPT ![name][id] = now]
  /\ pulledSinceChange' = FALSE
  /\ UNCHANGED <<plan_pos, upserted, pullRunning, sync_state, tables,
                 cloudFault, cloudGiftCards, pending, now, request, results, cloudDeleted, pushVars, procVars,
                 storeVars, apiVars>>

\* The cloud deletes a row while no cycle runs.
CloudDelete(name, id) ==
  /\ ~pullRunning
  /\ cloud[name][id] # 0
  /\ cloud' = [cloud EXCEPT ![name][id] = 0]
  /\ pulledSinceChange' = FALSE
  /\ UNCHANGED <<plan_pos, upserted, pullRunning, sync_state, tables,
                 cloudFault, cloudGiftCards, pending, now, request, results, cloudDeleted, pushVars, procVars,
                 storeVars, apiVars>>

\* The cloud deletes a sale or a kitchen order it holds and lists the id in
\* the deletedIds of its answers from then on.
CloudDeletes(name, id) ==
  /\ ~pullRunning
  /\ name \in DOMAIN cloudDeleted
  /\ id \notin Range(cloudDeleted[name])
  /\ cloudDeleted' = [cloudDeleted EXCEPT ![name] = Append(@, id)]
  /\ pulledSinceChange' = FALSE
  /\ UNCHANGED <<plan_pos, upserted, pullRunning, sync_state, tables, cloud,
                 cloudFault, cloudGiftCards, pending, now, request, results, pushVars, procVars, storeVars,
                 apiVars>>

\* Time passes while no cycle runs.
Tick ==
  /\ ~pullRunning
  /\ now < MaxTime
  /\ now' = now + 1
  /\ UNCHANGED <<plan_pos, upserted, pullRunning, sync_state, tables, cloud,
                 cloudFault, cloudGiftCards, pending, request, pulledSinceChange, results, cloudDeleted,
                 pushVars, procVars, storeVars, apiVars>>

\* ------------------------------------------------------------- the start
EmptyFn == [x \in {} |-> "none"]

\* ------------------------------------------------------ specifications

\* An empty outbox, and one kitchen order (id 0) already in the store, its
\* outbox rows long gone: the state after an earlier day's orders, or after a
\* pull mirrored the order from the cloud.
InitStore ==
  /\ outbox = <<>>
  /\ hist = <<>>
  /\ running = FALSE
  /\ batch = <<>>
  /\ cur = NoItem
  /\ cloudApplied = {}
  /\ nextId = 1
  /\ sales = EmptyFn
  /\ kitchen_orders = (0 :> "PENDING")
  /\ kitchen_order_items = (0 :> "PENDING")
  /\ guest_checks = {}
  /\ cash_drawers = EmptyFn
  /\ gift_cards = EmptyFn
  /\ sync_status = (0 :> "PENDING")
  /\ sale_items = {}
  /\ payments = {}

InitPull ==
  /\ plan_pos = 0
  /\ upserted = <<>>
  /\ pullRunning = FALSE
  /\ sync_state = [e \in Range(entities) |-> NoSyncState]
  /\ tables = [t \in CloudTables |-> <<>>]
  /\ request = NoRequest
  /\ pending = NoAnswer
  /\ now = 1
  /\ cloud = [e \in CloudEntities |-> [r \in Range(RowIds) |-> 0]]
  /\ pulledSinceChange = FALSE
  /\ results = [e \in Range(entities) |-> NoResult]
  /\ cloudDeleted = NoDeletedIds

InitApi ==
  /\ order_sequence = [d \in DateKeys |-> 0]
  /\ receipts = <<>>
  /\ broadcasts = <<>>
  /\ alive = TRUE
  /\ dbOpen = TRUE
  /\ intervalId = [push |-> TRUE, pull |-> TRUE]
  /\ touchedClosed = FALSE
  /\ envelope = NoCall
  /\ clients = EmptyFn
  /\ frames = NoFrames
  /\ txlog = <<>>
  /\ reply = NoReply
  /\ clock = 0
  /\ pinAttempts = [ip \in ClientIps |-> NoEntry]
  /\ pinLog = [ip \in ClientIps |-> <<>>]
  /\ pinPassed = [ip \in ClientIps |-> <<>>]
  /\ terminal_sessions = EmptyFn

\* The hub with its push engine, the routes that feed the outbox and the
\* administrative calls.  The cloud URL is whatever the configuration holds
\* at start; the setup route sets it until it is a valid one.
Init ==
  /\ InitStore
  /\ InitPull
  /\ InitApi
  /\ terminals = {}
  /\ cloudFault = NoFault
  /\ cloudGiftCards = EmptyFn
  /\ cloudApiUrl \in {"unset", "malformed", "valid"}
  /\ cloudMode \in {"free", "accept", "fail500"}

Next ==
  \/ ProcessOutbox
  \/ PostReturns
  \/ \E t \in RetryTypes : RetryDeadLetters(t)
  \/ cloudApiUrl # "valid" /\ \E u \in {"malformed", "valid"} : SetCloudApiUrl(u)
  \/ Len(outbox) < MaxRows /\ CreateSale(TRUE)
  \/ Len(outbox) < MaxRows /\ \E id \in DOMAIN kitchen_orders : BumpKitchenOrder(id)
  \/ Len(outbox) < MaxRows /\ CreateGuestCheck

Spec == Init /\ [][Next]_vars

\* The routes alone.
RouteInit ==
  /\ InitStore
  /\ InitPull
  /\ InitApi
  /\ terminals = {}
  /\ cloudFault = NoFault
  /\ cloudGiftCards = EmptyFn
  /\ cloudApiUrl = "valid"
  /\ cloudMode = "free"

RouteNext ==
  \/ Len(outbox) < MaxRows /\ CreateSale(TRUE)
  \/ Len(outbox) < MaxRows /\ \E id \in DOMAIN sales : VoidSale(id)
  \/ Len(outbox) < MaxRows /\ CreateKitchenOrder(TRUE)
  \/ Len(outbox) < MaxRows /\ \E id \in DOMAIN kitchen_orders : BumpKitchenOrder(id)
  \/ \E id \in DOMAIN kitchen_order_items, s \in {"READY", "VOIDED"} :
       UpdateItemStatus(id, s)
  \/ Len(outbox) < MaxRows /\ CreateGuestCheck

RouteSpec == RouteInit /\ [][RouteNext]_vars

\* The pull engine alone.
PullInit ==
  /\ InitStore
  /\ InitPull
  /\ InitApi
  /\ terminals = {}
  /\ cloudFault = NoFault
  /\ cloudGiftCards = EmptyFn
  /\ cloudApiUrl \in {"malformed", "valid"}
  /\ cloudMode \in {"free", "fail500"}

PullNext ==
  \/ runFullSync
  \/ PullEntity
  \/ \E name \in CloudEntities, id \in Range(RowIds) : CloudWrite(name, id)
  \/ Tick

PullSpec == PullInit /\ [][PullNext]_vars

\* The endpoints whose failure the pull engine is run against.
FaultEntities == CloudEntities \cup {"tax_types", "sale_items"}

\* The pull engine against a cloud that answers 500 on one endpoint.
PullFaultInit ==
  /\ InitStore
  /\ InitPull
  /\ InitApi
  /\ terminals = {}
  /\ cloudFault \in [name : FaultEntities, status : {500}]
  /\ cloudGiftCards = EmptyFn
  /\ cloudApiUrl = "valid"
  /\ cloudMode = "free"

PullFaultSpec == PullFaultInit /\ [][PullNext]_vars

\* The sale route and direct calls of nextReceiptNumber(), over two days.
ReceiptNext ==
  \/ NextReceiptNumber
  \/ Len(outbox) < MaxRows /\ \E ok \in BOOLEAN : CreateSale(ok)
  \/ Tick

ReceiptSpec == RouteInit /\ [][ReceiptNext]_vars

\* POST /api/auth/pin under its rate limiter, on a hub without terminals.
\* The second address sends one well-formed request at most.
PinNext ==
  \/ \E ip \in ClientIps, pin \in Pins :
       /\ (ip # "ip1" /\ ~Malformed(pin)) => pinLog[ip] = <<>>
       /\ PinAuth(ip, pin, "none")
  \/ ClockTick
  \/ CleanupPinAttempts

PinSpec == RouteInit /\ [][PinNext]_vars

\* Sessions: a hub with the terminal t1, PIN requests that name t1, an
\* unknown terminal or none, and requests with and without x-session-id.
AuthInit ==
  /\ InitStore
  /\ InitPull
  /\ InitApi
  /\ terminals = {"t1"}
  /\ cloudFault = NoFault
  /\ cloudGiftCards = EmptyFn
  /\ cloudApiUrl = "valid"
  /\ cloudMode = "free"

AuthNext ==
  \/ \E pin \in {<<9, 9, 9, 9>>, UserPin}, terminalId \in {"none", "t1", "t9"} :
       PinAuth("ip1", pin, terminalId)
  \/ \E url \in Urls, sid \in 0..(MaxSessions + 1) : HttpRequest(url, sid)

AuthSpec == AuthInit /\ [][AuthNext]_vars

\* Session lifetime: a hub with the terminals t1 and t2, PIN logins on them,
\* logout, deregistration and requests to public and protected routes.
SessionInit ==
  /\ InitStore
  /\ InitPull
  /\ InitApi
  /\ terminals = {"t1", "t2"}
  /\ cloudFault = NoFault
  /\ cloudGiftCards = EmptyFn
  /\ cloudApiUrl = "valid"
  /\ cloudMode = "free"

SessionNext ==
  \/ \E terminalId \in {"none", "t1", "t2"} : PinAuth("ip1", UserPin, terminalId)
  \/ \E url \in Urls, sid \in 0..MaxSessions : HttpRequest(url, sid)
  \/ \E id \in {"t1", "t2", "t9"}, sid \in 0..1 : Deregister(id, sid)

SessionSpec == SessionInit /\ [][SessionNext]_vars

\* The realtime bus: peers of the terminals t1 and t2, of an unknown terminal
\* and of none connect, send events and go away, and a kitchen order is
\* created over HTTP.
WsInit ==
  /\ InitStore
  /\ InitPull
  /\ InitApi
  /\ terminals = {"t1", "t2"}
  /\ cloudFault = NoFault
  /\ cloudGiftCards = EmptyFn
  /\ cloudApiUrl = "valid"
  /\ cloudMode = "free"

WsNext ==
  \/ \E terminalId \in {"none", "t1", "t2", "t9"}, queryRole \in {"none", "kds"} :
       Connect(terminalId, queryRole)
  \/ \E clientId \in 1..MaxClients : SocketCloses(clientId)
  \/ \E clientId \in 1..MaxClients : Close(clientId)
  \/ \E clientId \in 1..MaxClients, event \in PeerEvents :
       Message(clientId, event)
  \/ Len(outbox) < 1 /\ \E ok \in BOOLEAN : CreateKitchenOrder(ok)

WsSpec == WsInit /\ [][WsNext]_vars

\* The shutdown handler of SIGINT and SIGTERM up to its await:
\* stopSyncEngines() clears the two interval timers and closeDatabase()
\* checkpoints and closes the handle at once, whether or not a drain or a
\* pull cycle is waiting for the cloud.
Shutdown ==
  /\ alive /\ dbOpen
  /\ intervalId' = [push |-> FALSE, pull |-> FALSE]
  /\ dbOpen' = FALSE
  /\ UNCHANGED <<alive, touchedClosed, envelope, pushVars, storeVars, pullVars,
                 apiVars>>

\* The POST a drain awaits answers while the shutdown handler awaits
\* app.close(): the statement on the closed handle throws, the UPDATE of the
\* catch block throws as well, and processOutbox leaves through its finally.
PostReturnsAfterClose ==
  /\ alive /\ ~dbOpen
  /\ running /\ cur.id # 0
  /\ LET row == outbox[cur.id]
         key == <<row.entity_id, row.action>>
     IN  \E o \in CloudOutcomes(key) :
           cloudApplied' = IF o.apply THEN cloudApplied \cup {key}
                           ELSE cloudApplied
  /\ running' = FALSE
  /\ cur' = NoItem
  /\ batch' = <<>>
  /\ touchedClosed' = TRUE
  /\ UNCHANGED <<outbox, hist, cloudApiUrl, cloudMode, alive, dbOpen,
                 intervalId, envelope, storeVars, pullVars, apiVars>>

\* The process ends; the cloud may still apply the POST that was in flight.
ProcessEnds ==
  /\ alive' = FALSE
  /\ dbOpen' = FALSE
  /\ intervalId' = [push |-> FALSE, pull |-> FALSE]
  /\ running' = FALSE
  /\ cur' = NoItem
  /\ batch' = <<>>
  /\ IF cur.id # 0
     THEN LET row == outbox[cur.id]
              key == <<row.entity_id, row.action>>
          IN  \E o \in CloudOutcomes(key) :
                cloudApplied' = IF o.apply THEN cloudApplied \cup {key}
                                ELSE cloudApplied
     ELSE UNCHANGED cloudApplied
  /\ UNCHANGED <<outbox, hist, cloudApiUrl, cloudMode, touchedClosed,
                 envelope, storeVars, pullVars, apiVars>>

\* process.exit(0) at the end of the shutdown handler.
Exit == alive /\ ~dbOpen /\ ProcessEnds

\* The process is killed or the machine loses power.
Crash == alive /\ dbOpen /\ ProcessEnds

\* The hub starts again on the same database file: initDatabase() and
\* startSyncEngines(); no statement resets the rows a drain left behind.
Restart ==
  /\ ~alive
  /\ alive' = TRUE
  /\ dbOpen' = TRUE
  /\ intervalId' = [push |-> TRUE, pull |-> TRUE]
  /\ UNCHANGED <<touchedClosed, envelope, pushVars, storeVars, pullVars,
                 apiVars>>

\* The push engine on its timer, sales, and the hub being shut down, killed
\* and started again.
ShutdownInit ==
  /\ InitStore
  /\ InitPull
  /\ InitApi
  /\ terminals = {}
  /\ cloudFault = NoFault
  /\ cloudGiftCards = EmptyFn
  /\ cloudApiUrl = "valid"
  /\ cloudMode \in {"accept", "fail500"}

ShutdownNext ==
  \/ alive /\ intervalId.push /\ ProcessOutbox
  \/ alive /\ dbOpen /\ PostReturns
  \/ alive /\ dbOpen /\ Len(outbox) < MaxRows /\ CreateSale(TRUE)
  \/ Shutdown
  \/ PostReturnsAfterClose
  \/ Exit
  \/ Crash
  \/ Restart

ShutdownSpec == ShutdownInit /\ [][ShutdownNext]_vars

\* The cloud client alone, under every base URL the setup route can store.
ClientInit ==
  /\ InitStore
  /\ InitPull
  /\ InitApi
  /\ terminals = {}
  /\ cloudFault = NoFault
  /\ cloudGiftCards = EmptyFn
  /\ cloudApiUrl \in {"unset", "malformed", "valid"}
  /\ cloudMode = "free"

ClientNext ==
  \/ \E response \in Responses : CloudGet(response)
  \/ \E response \in Responses : CloudPost(response)
  \/ cloudApiUrl # "valid" /\ \E u \in {"malformed", "valid"} : SetCloudApiUrl(u)

ClientSpec == ClientInit /\ [][ClientNext]_vars

\* The cash drawer routes, on a hub that mirrors one drawer of the cloud,
\* open or closed.
CashRows == MaxRows + 2

CashInit ==
  /\ outbox = <<>>
  /\ hist = <<>>
  /\ running = FALSE
  /\ batch = <<>>
  /\ cur = NoItem
  /\ cloudApplied = {}
  /\ nextId = 1
  /\ sales = EmptyFn
  /\ kitchen_orders = (0 :> "PENDING")
  /\ kitchen_order_items = (0 :> "PENDING")
  /\ guest_checks = {}
  /\ cash_drawers \in [{0} -> {"OPEN", "CLOSED", "COUNTING"}]
  /\ gift_cards = EmptyFn
  /\ sync_status = (0 :> "PENDING")
  /\ sale_items = {}
  /\ payments = {}
  /\ InitPull
  /\ InitApi
  /\ terminals = {}
  /\ cloudFault = NoFault
  /\ cloudGiftCards = EmptyFn
  /\ cloudApiUrl = "valid"
  /\ cloudMode = "free"

CashNext ==
  \/ Len(outbox) < CashRows /\ \E build \in Builds : OpenCashDrawer(build)
  \/ \E id \in 0..(MaxRows + 1), build \in Builds :
       /\ Len(outbox) < CashRows
       /\ CloseCashDrawer(id, build)

CashSpec == CashInit /\ [][CashNext]_vars

\* The kitchen order routes, on a hub that holds one PENDING order.
KitchenRows == MaxRows + 1

KitchenNext ==
  \/ Len(outbox) < KitchenRows /\ \E ok \in BOOLEAN : CreateKitchenOrder(ok)
  \/ \E id \in DOMAIN kitchen_orders, status \in {"CANCELLED", "undefined"} :
       /\ Len(outbox) < KitchenRows
       /\ PatchKitchenOrder(id, status)
  \/ \E id \in DOMAIN kitchen_orders :
       /\ kitchen_orders[id] \in DOMAIN statusFlow => Len(outbox) < KitchenRows
       /\ BumpKitchenOrder(id)
  \/ \E id \in DOMAIN kitchen_order_items, s \in {"READY", "VOIDED"} :
       UpdateItemStatus(id, s)

KitchenSpec == RouteInit /\ [][KitchenNext]_vars

\* ------------------------------------------------------------ the claims

Rows == DOMAIN outbox

\* C1: every row reaches SYNCED or DEAD_LETTER within a bounded number of
\* push cycles.  A drain takes every eligible row (the outbox holds fewer
\* than a batch) and each pick spends one attempt, so the bound is
\* max_attempts drains: once that many drains have started on a row with the
\* cloud URL valid (every POST is answered) and no drain is in progress, the
\* row is terminal.
C1_TerminalWithinBound ==
  \A i \in Rows :
    (~running /\ cloudApiUrl = "valid" /\ hist[i].cycles >= outbox[i].max_attempts)
      => Terminal(outbox[i])

\* C2: with a reachable cloud that accepts every push, the row of every
\* entity type the routes enqueue is SYNCED once a drain has run on it.
C2_AcceptedWritesSynced ==
  (cloudMode = "accept" /\ cloudApiUrl = "valid" /\ ~running) =>
    \A i \in Rows : hist[i].cycles >= 1 => outbox[i].status = "SYNCED"

\* C3: the cloud has applied the payload of every SYNCED row exactly once.
C3_ExactlyOnce ==
  \A i \in Rows : outbox[i].status = "SYNCED" => hist[i].applied = 1

\* C4: against an endpoint that answers 500 to every attempt, a row all of
\* whose attempts were POSTed is dead-lettered at exactly max_attempts POSTs
\* with attempts = max_attempts, not earlier and not later, and no further
\* POST is sent for it (posts counts since the last administrative retry).
C4_RetryBound ==
  cloudMode = "fail500" =>
    \A i \in Rows :
      /\ hist[i].posts <= outbox[i].max_attempts
      /\ (hist[i].posts = outbox[i].attempts /\ outbox[i].status = "DEAD_LETTER")
           => outbox[i].attempts = outbox[i].max_attempts
      /\ (hist[i].posts = outbox[i].max_attempts /\ outbox[i].status # "PROCESSING")
           => (outbox[i].status = "DEAD_LETTER"
               /\ outbox[i].attempts = outbox[i].max_attempts)
C4_Witness ==
  /\ cloudMode = "fail500"
  /\ \E i \in Rows : /\ outbox[i].status = "DEAD_LETTER"
                     /\ hist[i].posts = outbox[i].max_attempts

\* C5: a row one of whose POSTs was answered 409 is SYNCED with the
\* duplicate note from that answer on: it is not picked up again (it would
\* be PROCESSING), retried or dead-lettered.
C5_ConflictIsSynced ==
  \A i \in Rows :
    hist[i].seen409 =>
      outbox[i].status = "SYNCED" /\ outbox[i].error = "Duplicate (409)"
C5_Witness == \E i \in Rows : hist[i].seen409

\* C6: a row one of whose POSTs was answered a 4xx other than 409 is
\* DEAD_LETTER from that answer on, whatever its attempts, until
\* retry-dead-letters resets it.
C6_ClientErrorIsDeadLetter ==
  \A i \in Rows :
    hist[i].seen4xx =>
      outbox[i].status = "DEAD_LETTER" /\ outbox[i].error = "HTTP 4xx"
C6_Witness ==
  \E i \in Rows : hist[i].seen4xx /\ outbox[i].attempts < outbox[i].max_attempts

\* C7: attempts <= max_attempts on every outbox row, in every state.
C7_AttemptsBounded == \A i \in Rows : outbox[i].attempts <= outbox[i].max_attempts
C7_Witness ==
  \E i \in Rows : outbox[i].attempts = outbox[i].max_attempts /\ hist[i].posts > 0

\* C8: a SYNCED row never changes again, and a DEAD_LETTER row changes only
\* in a retry-dead-letters step, whatever else happens (drains, answers from
\* the cloud, requests).
C8_TerminalRowsImmutable ==
  [][\A i \in Rows :
       Terminal(outbox[i]) =>
         \/ outbox'[i] = outbox[i]
         \/ /\ outbox[i].status = "DEAD_LETTER"
            /\ \E t \in RetryTypes : RetryDeadLetters(t)]_vars
C8_Witness ==
  \E i, j \in Rows :
    /\ outbox[i].status = "DEAD_LETTER"
    /\ outbox[i].attempts < outbox[i].max_attempts
    /\ outbox[j].status = "PROCESSING"

\* C9: a step changes business rows exactly when it appends one outbox row.
C9_OutboxAtomicity ==
  [][(storeVars' # storeVars) <=> (Len(outbox') = Len(outbox) + 1)]_vars

\* The position of the first upsert of a table in this cycle.
FirstUpsert(t) == CHOOSE k \in DOMAIN upserted :
                    upserted[k] = t /\ \A j \in 1..(k - 1) : upserted[j] # t

\* C10: in a pull cycle, the first upsert of a referencing table never
\* precedes the first upsert of the table it references.
C10_PullDependencyOrder ==
  \A ref \in References :
    (ref[1] \in Range(upserted) /\ ref[2] \in Range(upserted))
      => FirstUpsert(ref[2]) < FirstUpsert(ref[1])

\* C11: after a cycle in which the cloud answered 500 on exactly one endpoint
\* and 2xx on every other, every other entity of the plan has a sync_state
\* row with status SUCCESS.
C11_PullFaultIsolation ==
  (pulledSinceChange /\ ~pullRunning /\ cloudFault.status = 500) =>
    \A e \in Range(entities) \ {cloudFault.name} :
      sync_state[e].status = "SUCCESS"

\* C12 as stated: a pull cycle that follows a completed cycle, the cloud
\* unchanged in between, leaves the store as the first cycle left it: none of
\* its steps changes a replicated table or a sync_state row.
C12_PullIdempotence ==
  [][(pulledSinceChange /\ pullRunning)
       => (tables' = tables /\ sync_state' = sync_state)]_vars

\* C12 as amended: a pull cycle that follows a completed cycle, the cloud
\* unchanged in between, leaves every replicated table as the first cycle
\* left it (its sync_state rows are written anew).
C12_TablesIdempotent ==
  [][(pulledSinceChange /\ pullRunning) => tables' = tables]_vars
C12_Witness ==
  /\ pulledSinceChange
  /\ pullRunning
  /\ request.name = "roles"
  /\ tables["categories"] # <<>>
  /\ tables["pizza_location_config"] # <<>>

\* C13: every request of a pull cycle carries no sinceVersion when its
\* entity's last_synced_at is null and otherwise that last_synced_at, and the
\* handler leaves every local row that is not among the returned rows as it
\* was.
C13_PullDelta ==
  [][pullRunning =>
       LET name == entities[plan_pos]
           rows == CloudRows(name, request.sinceVersion)
           ids == {rows[k].id : k \in DOMAIN rows}
       IN  /\ request.name = name =>
                request.sinceVersion = getSyncState(name).last_synced_at
           /\ \A t \in CloudTables : \A k \in DOMAIN tables[t] :
                (t \notin {name} \cup Range(CompanionTables(name))
                 \/ tables[t][k].id \notin ids)
                  => \E j \in DOMAIN tables'[t] : tables'[t][j] = tables[t][k]]_vars

\* The number a sequence of decimal digits reads as.
RECURSIVE Number(_)
Number(digits) ==
  IF digits = <<>> THEN 0
  ELSE 10 * Number(SubSeq(digits, 1, Len(digits) - 1)) + digits[Len(digits)]

\* The calls of nextReceiptNumber() made on the date d.
CallsOn(d) == {k \in DOMAIN receipts : receipts[k].date_key = d}

\* C14: the receipt numbers the N calls of nextReceiptNumber() on one date
\* have returned are N distinct values, and their sequence numbers are
\* exactly 1..N.
C14_ReceiptNumbers ==
  \A d \in DateKeys :
    /\ \A i, j \in CallsOn(d) : i # j => receipts[i] # receipts[j]
    /\ {Number(receipts[k].seq) : k \in CallsOn(d)} = 1..Cardinality(CallsOn(d))

C14_Witness ==
  /\ \E d \in DateKeys : Cardinality(CallsOn(d)) >= MaxReceipts
  /\ \E d \in DateKeys : CallsOn(d) # {} /\ CallsOn(d) # DOMAIN receipts
  /\ reply.status = 500

\* A step that is a request of ip to POST /api/auth/pin.
PinStep(ip) ==
  /\ reply'.url = PinUrl /\ reply'.ip = ip
  /\ \/ reply' # reply
     \/ pinLog' # pinLog
     \/ pinAttempts'[ip] # pinAttempts[ip] /\ pinAttempts'[ip] # NoEntry

\* The ten latest well-formed requests of ip lie within the last 5 minutes.
TenWithinWindow(ip) ==
  /\ Len(pinLog[ip]) >= PIN_RATE_LIMIT
  /\ pinLog[ip][Len(pinLog[ip]) - PIN_RATE_LIMIT + 1] > clock - PIN_RATE_WINDOW_MS

\* The well-formed requests of ip logged in its current rate-limit window.
InWindow(ip) ==
  {k \in DOMAIN pinLog[ip] :
     /\ clock < pinAttempts[ip].resetAt
     /\ pinLog[ip][k] >= pinAttempts[ip].resetAt - PIN_RATE_WINDOW_MS}

C19_SessionValidation ==
  [][(reply' # reply /\ reply'.url \in Urls /\ ~isPublicRoute(reply'.url)
        /\ ~(reply'.sid # 0 /\ ActiveSession(reply'.sid)))
       => /\ reply'.status = 401
          /\ reply'.by = "hook"
          /\ terminal_sessions' = terminal_sessions]_vars

C19_Witness ==
  /\ reply.url = <<"api", "sales">> /\ reply.by = "hook" /\ reply.status = 401
  /\ reply.sid \in DOMAIN terminal_sessions
  /\ ~terminal_sessions[reply.sid].is_active

\* C20: the session id a successful POST /api/auth/pin returns names a
\* terminal_sessions row of user u1 that is active, which the hook accepts.
C20_SessionOnEveryMatch ==
  [][(reply' # reply /\ reply'.url = PinUrl /\ reply'.status = 200)
       => /\ reply'.sessionId \in DOMAIN terminal_sessions'
          /\ terminal_sessions'[reply'.sessionId].is_active
          /\ terminal_sessions'[reply'.sessionId].user_id = "u1"]_vars

\* C16: a route broadcasts only after its transaction has committed, and a
\* request whose transaction rolls back broadcasts nothing and leaves the
\* store as it was.
C16_BroadcastAfterCommit ==
  [][/\ \A k \in DOMAIN txlog' :
          txlog'[k] = "broadcast" => \E j \in 1..(k - 1) : txlog'[j] = "COMMIT"
     /\ broadcasts' # broadcasts => "COMMIT" \in Range(txlog')
     /\ "ROLLBACK" \in Range(txlog')
          => /\ broadcasts' = broadcasts
             /\ outbox' = outbox
             /\ storeVars' = storeVars]_vars

C16_Witness ==
  /\ txlog = <<"BEGIN", "ROLLBACK">>
  /\ reply.url = <<"api", "kitchen-orders", "id">> /\ reply.status = 500
  /\ broadcasts # <<>>

\* The order:status events broadcast for the order id.
StatusEvents(id) ==
  {k \in DOMAIN broadcasts :
     broadcasts[k].event = "order:status" /\ broadcasts[k].id = id}

\* C17: a bump of an order that is PENDING, PREPARING or READY moves it to
\* PREPARING, READY or COMPLETED, appends one outbox row and broadcasts one
\* order:status event; a bump of an order in any other status answers
\* success: false, writes no outbox row and broadcasts nothing.
C17_BumpSequence ==
  [][reply'.url = BumpUrl =>
       LET id == reply'.id
           s == kitchen_orders[id]
       IN  IF s \in {"PENDING", "PREPARING", "READY"}
           THEN /\ reply'.success
                /\ kitchen_orders'[id] = (IF s = "PENDING" THEN "PREPARING"
                                          ELSE IF s = "PREPARING" THEN "READY"
                                          ELSE "COMPLETED")
                /\ Len(outbox') = Len(outbox) + 1
                /\ SubSeq(outbox', 1, Len(outbox)) = outbox
                /\ outbox'[Len(outbox')].entity_type = "kitchen_order"
                /\ outbox'[Len(outbox')].entity_id = id
                /\ broadcasts' = Append(broadcasts,
                                        Event("order:status", id, kitchen_orders'[id]))
           ELSE /\ ~reply'.success
                /\ outbox' = outbox
                /\ broadcasts' = broadcasts
                /\ kitchen_orders' = kitchen_orders]_vars

C17_Witness ==
  /\ kitchen_orders[0] = "COMPLETED"
  /\ reply.url = BumpUrl /\ reply.id = 0 /\ ~reply.success
  /\ Cardinality(StatusEvents(0)) = 3
  /\ Len(outbox) = 3
  /\ \A k \in DOMAIN outbox : outbox[k].entity_id = 0

\* C18: a step that takes a row out of DEAD_LETTER is retryDeadLetters with
\* some entityType (or none): it sets status = PENDING and attempts = 0 on
\* exactly the DEAD_LETTER rows of that type, which the next drain may then
\* pick, and leaves every other row, and the number of rows, as they were.
C18_RetryDeadLettersFrame ==
  [][(\E i \in DOMAIN outbox :
        outbox[i].status = "DEAD_LETTER" /\ outbox'[i].status # "DEAD_LETTER")
       => /\ DOMAIN outbox' = DOMAIN outbox
          /\ \E entityType \in RetryTypes :
               \A i \in DOMAIN outbox :
                 IF /\ outbox[i].status = "DEAD_LETTER"
                    /\ entityType = "" \/ outbox[i].entity_type = entityType
                 THEN /\ outbox'[i] = [outbox[i] EXCEPT !.status = "PENDING",
                                                       !.attempts = 0]
                      /\ Eligible(outbox'[i])
                 ELSE outbox'[i] = outbox[i]]_vars

C18_Witness ==
  /\ reply.url = RetryUrl
  /\ \E i, j \in DOMAIN outbox :
       /\ outbox[i].status = "PENDING" /\ outbox[i].attempts = 0
       /\ outbox[i].entity_type = "sale" /\ outbox[i].error # "none"
       /\ outbox[j].status = "DEAD_LETTER"

\* Both engines with their timers and their manual routes; the cloud accepts
\* every POST or fails every POST.
FlightInit ==
  /\ InitStore
  /\ InitPull
  /\ InitApi
  /\ terminals = {}
  /\ cloudFault = NoFault
  /\ cloudGiftCards = EmptyFn
  /\ cloudApiUrl = "valid"
  /\ cloudMode \in {"accept", "fail500"}

FlightNext ==
  \/ Len(outbox) < MaxRows /\ CreateSale(TRUE)
  \/ ProcessOutbox
  \/ PostReturns
  \/ SyncPush
  \/ runFullSync
  \/ PullEntity
  \/ SyncPull

FlightSpec == FlightInit /\ [][FlightNext]_vars

\* A backlog one row short of a full batch, left by a day's sales and kitchen
\* status changes made while no cloud was configured, and a cloud that now
\* accepts every POST; the routes add the rows that fill the batch and exceed
\* it.  The receipt numbers of the backlog's sales are of an earlier date.
Backlog == DefaultBatchSize - 1

BatchInit ==
  /\ outbox = [i \in 1..Backlog |->
                 IF i % 2 = 1 THEN NewRow("sale", i, "create", 10)
                 ELSE NewRow("kitchen_order", 0, "update", 5)]
  /\ hist = [i \in 1..Backlog |-> NewHist]
  /\ running = FALSE
  /\ batch = <<>>
  /\ cur = NoItem
  /\ cloudApplied = {}
  /\ nextId = Backlog + 1
  /\ sales = [i \in {k \in 1..Backlog : k % 2 = 1} |-> "COMPLETED"]
  /\ kitchen_orders = (0 :> "PREPARING")
  /\ kitchen_order_items = (0 :> "PENDING")
  /\ guest_checks = {}
  /\ cash_drawers = EmptyFn
  /\ gift_cards = EmptyFn
  /\ sync_status = [i \in {0} \cup {k \in 1..Backlog : k % 2 = 1} |-> "PENDING"]
  /\ sale_items = {k \in 1..Backlog : k % 2 = 1}
  /\ payments = {k \in 1..Backlog : k % 2 = 1}
  /\ InitPull
  /\ InitApi
  /\ terminals = {}
  /\ cloudFault = NoFault
  /\ cloudGiftCards = EmptyFn
  /\ cloudApiUrl = "valid"
  /\ cloudMode = "accept"

BatchNext ==
  \/ ProcessOutbox
  \/ PostReturns
  \/ Len(outbox) < Backlog + MaxRows /\ CreateSale(TRUE)
  \/ Len(outbox) < Backlog + MaxRows
       /\ \E id \in DOMAIN kitchen_orders : BumpKitchenOrder(id)
  \/ Len(outbox) < Backlog + MaxRows /\ CreateGuestCheck

BatchSpec == BatchInit /\ [][BatchNext]_vars

\* The pull engine against a cloud that answers 404 on one endpoint.
PullNotFoundInit ==
  /\ InitStore
  /\ InitPull
  /\ InitApi
  /\ terminals = {}
  /\ cloudFault \in [name : Range(entities), status : {404}]
  /\ cloudGiftCards = EmptyFn
  /\ cloudApiUrl = "valid"
  /\ cloudMode = "free"

PullNotFoundNext ==
  \/ runFullSync
  \/ PullEntity
  \/ \E name \in CloudEntities, id \in Range(RowIds) : CloudWrite(name, id)

PullNotFoundSpec == PullNotFoundInit /\ [][PullNotFoundNext]_vars

\* The pull engine against a cloud whose pizza price rows come and go.
ReplaceInit ==
  /\ InitStore
  /\ InitPull
  /\ InitApi
  /\ terminals = {}
  /\ cloudFault = NoFault
  /\ cloudGiftCards = EmptyFn
  /\ cloudApiUrl = "valid"
  /\ cloudMode = "free"

ReplaceNext ==
  \/ runFullSync
  \/ PullEntity
  \/ \E name \in CloudEntities, id \in Range(RowIds) : CloudWrite(name, id)
  \/ \E name \in CloudEntities \cap ReplaceEntities, id \in Range(RowIds) :
       CloudDelete(name, id)
  \/ Tick

ReplaceSpec == ReplaceInit /\ [][ReplaceNext]_vars

\* Sales that are pushed to a cloud which later deletes sales and kitchen
\* orders, and the pull engine that receives the deletedIds.
DeleteInit ==
  /\ InitStore
  /\ InitPull
  /\ InitApi
  /\ terminals = {}
  /\ cloudFault = NoFault
  /\ cloudGiftCards = EmptyFn
  /\ cloudApiUrl = "valid"
  /\ cloudMode = "accept"

DeleteNext ==
  \/ Len(outbox) < MaxRows /\ CreateSale(TRUE)
  \/ ProcessOutbox
  \/ PostReturns
  \/ \E id \in DOMAIN sales :
       <<id, "create">> \in cloudApplied /\ CloudDeletes("sales", id)
  \/ \E id \in DOMAIN kitchen_orders : CloudDeletes("kitchen_orders", id)
  \/ runFullSync
  \/ PullEntity

DeleteSpec == DeleteInit /\ [][DeleteNext]_vars

\* The outbox row inserted last for the business row `id`.
LastOutboxRow(id) ==
  LET is == {i \in DOMAIN outbox : outbox[i].entity_id = id}
  IN  outbox[CHOOSE i \in is : \A j \in is : j <= i]

\* C21: once the outbox row of a sale or kitchen order (the latest one
\* enqueued for it) is SYNCED or DEAD_LETTER, the business row's sync_status
\* shows that same terminal state.
C21_SyncStatusMirrorsOutbox ==
  \A i \in DOMAIN outbox :
    (/\ outbox[i].entity_type \in {"sale", "kitchen_order"}
     /\ outbox[i] = LastOutboxRow(outbox[i].entity_id)
     /\ Terminal(outbox[i]))
      => sync_status[outbox[i].entity_id] = outbox[i].status

\* s is a prefix of t.
IsPrefix(s, t) == Len(s) <= Len(t) /\ SubSeq(t, 1, Len(s)) = s

\* C22: single-flight.  While a drain is in progress, an item is picked up,
\* a POST is sent or the drain's position moves only as that drain goes on
\* from its answered POST to an item of its own batch; while a pull cycle is
\* in progress, the plan position, the request and the store move only as
\* that cycle goes on to its next entity; and a manual push or pull call that
\* arrives meanwhile is answered with every variable of the engines and of
\* the store unchanged.
C22_SingleFlight ==
  [][/\ (/\ running
         /\ \/ cur' # cur
            \/ batch' # batch
            \/ \E i \in DOMAIN outbox :
                 \/ outbox[i].status # "PROCESSING" /\ outbox'[i].status = "PROCESSING"
                 \/ hist'[i].posts > hist[i].posts)
          => /\ outbox'[cur.id].status # "PROCESSING"
             /\ cur' = NoItem \/ cur' \in Range(batch)
             /\ \E k \in 0..Len(batch) : batch' = SubSeq(batch, k + 1, Len(batch))
     /\ (/\ pullRunning
         /\ <<plan_pos, request, upserted, tables, sync_state>>' #
              <<plan_pos, request, upserted, tables, sync_state>>)
          => /\ plan_pos' = IF plan_pos = Len(entities) THEN 0 ELSE plan_pos + 1
             /\ IsPrefix(upserted, upserted')
     /\ (running /\ reply' # reply /\ reply'.url = PushUrl)
          => UNCHANGED <<pushVars, storeVars, pullVars, procVars>>
     /\ (pullRunning /\ reply' # reply /\ reply'.url = PullUrl)
          => UNCHANGED <<pushVars, storeVars, pullVars, procVars>>]_vars

\* A manual push was dropped while a drain with items left awaits a POST and
\* a pull cycle is under way.
C22_Witness ==
  /\ running /\ cur.id # 0 /\ batch # <<>>
  /\ reply.url = PushUrl
  /\ pullRunning /\ plan_pos > 1

\* C23: the selection of a batch and the transition of every selected item
\* to PROCESSING with attempts incremented are one atomic step that precedes
\* every POST: while a POST of a drain is awaited, every item the drain
\* selected and has not processed yet is PROCESSING with its attempts
\* incremented.
C23_ClaimIsAtomic ==
  cur.id # 0 =>
    \A k \in DOMAIN batch :
      /\ outbox[batch[k].id].status = "PROCESSING"
      /\ outbox[batch[k].id].attempts = batch[k].attempts + 1

\* created_at of the outbox row with id i: rows are inserted in id order, and
\* rows inserted within the same second tie, which leaves their order open.
created_at(i) == i

\* The rows a step that starts a drain picks up: those it processes before
\* its first await, the one whose POST it awaits and those left in its batch.
PickedUp ==
  {i \in DOMAIN outbox : outbox'[i].attempts = outbox[i].attempts + 1}
    \cup {batch'[k].id : k \in DOMAIN batch'}

\* C24: a drain takes at most batchSize rows, all eligible, none in favour of
\* which an eligible row of higher priority, or of equal priority and earlier
\* created_at, is left out; and the POSTs of a drain go out in non-increasing
\* priority and, within a priority, in non-decreasing created_at.
C24_BatchOrder ==
  [][/\ (~running /\ PickedUp # {})
          => /\ Cardinality(PickedUp) <= DefaultBatchSize
             /\ \A i \in PickedUp : Eligible(outbox[i])
             /\ \A i \in PickedUp, j \in DOMAIN outbox \ PickedUp :
                  Eligible(outbox[j]) =>
                    \/ outbox[i].priority > outbox[j].priority
                    \/ /\ outbox[i].priority = outbox[j].priority
                       /\ created_at(i) <= created_at(j)
     /\ (cur'.id # 0 /\ cur' # cur)
          => \A j \in {batch'[k].id : k \in DOMAIN batch'}
                   \cup (IF cur.id # 0 THEN {cur.id} ELSE {}) :
               LET first == IF j = cur.id THEN j ELSE cur'.id
                   second == IF j = cur.id THEN cur'.id ELSE j
               IN  \/ outbox[first].priority > outbox[second].priority
                   \/ /\ outbox[first].priority = outbox[second].priority
                      /\ created_at(first) <= created_at(second)]_vars

\* A drain in progress took a full batch and left out an eligible row, and a
\* POST of priority 5 follows the POSTs of priority 10.
C24_Witness ==
  /\ running
  /\ outbox[cur.id].priority = 5
  /\ Cardinality({i \in DOMAIN outbox : outbox[i].status # "PENDING"})
       + Len(batch) = DefaultBatchSize
  /\ \E j \in DOMAIN outbox :
       /\ Eligible(outbox[j])
       /\ j \notin {batch[k].id : k \in DOMAIN batch}
       /\ outbox[j].priority = 5 /\ j < Backlog

C26_NotFoundIsNoError ==
  /\ \A e \in Range(entities) :
       (cloudFault.name = e /\ cloudFault.status = 404 /\ results[e] # NoResult)
         => results[e].pulled = 0 /\ results[e].errors = <<>>
  /\ (~pullRunning /\ pulledSinceChange) =>
       \A e \in Range(entities) : results[e].entity = e

\* The tables the handlers of the plan write.
PlanTables ==
  UNION {{entities[k]} \cup Range(CompanionTables(entities[k])) :
           k \in DOMAIN entities}

\* The position in the plan of the handler that writes table t.
WriterPos(t) ==
  CHOOSE k \in DOMAIN entities :
    t = entities[k] \/ t \in Range(CompanionTables(entities[k]))

\* Table a is written before table b in every cycle: by an earlier handler of
\* the plan, or earlier by the same handler.
PlannedBefore(a, b) ==
  \/ WriterPos(a) < WriterPos(b)
  \/ /\ WriterPos(a) = WriterPos(b)
     /\ LET writes == <<entities[WriterPos(a)]>>
                        \o CompanionTables(entities[WriterPos(a)])
        IN  \E m, n \in DOMAIN writes : m < n /\ writes[m] = a /\ writes[n] = b

\* C27: whenever a cycle reaches the handler of a table, every table that
\* table references is planned before it; so the pizza base configuration is
\* pulled before every pizza pricing table.
C27_PlanOrder ==
  (pullRunning /\ plan_pos \in DOMAIN entities) =>
    \A ref \in References :
      (ref[1] \in PlanTables /\ ref[2] \in PlanTables
       /\ WriterPos(ref[1]) = plan_pos)
        => PlannedBefore(ref[2], ref[1])

\* C28: when the handler of a full-replace entity has run on a 2xx answer,
\* its table holds exactly the rows of that answer, the empty answer included.
C28_FullReplace ==
  [][\A name \in ReplaceEntities \cap CloudEntities :
       (/\ pullRunning
        /\ plan_pos \in DOMAIN entities
        /\ entities[plan_pos] = name
        /\ plan_pos' # plan_pos
        /\ ResponseStatus(name) = 200)
         => tables'[name] = CloudRows(name, 0)]_vars

\* C29: a row named in deletedIds goes together with its child rows: no sale
\* is gone while item or payment rows of it remain, no sale remains with its
\* item rows gone, and kitchen orders and their items go together.
C29_DeleteWithChildren ==
  /\ \A id \in sale_items \cup payments : id \in DOMAIN sales
  /\ \A id \in DOMAIN sales : id \in sale_items
  /\ DOMAIN kitchen_order_items = DOMAIN kitchen_orders


\* The requests of ip that passed the rate limiter within the 5 minutes that
\* end now.
PassedWithinWindow(ip) ==
  {k \in DOMAIN pinPassed[ip] : pinPassed[ip][k] > clock - PIN_RATE_WINDOW_MS}

\* C30: in any interval of 5 minutes at most 10 PIN attempts of one source IP
\* pass the rate limiter and reach PIN verification.
C30_TenPerAnyWindow ==
  \A ip \in ClientIps : Cardinality(PassedWithinWindow(ip)) <= PIN_RATE_LIMIT


\* A step that is a request to POST /api/auth/logout carrying session sid.
LogoutStep(sid) ==
  reply' # reply /\ reply'.url = LogoutUrl /\ reply'.sid = sid

\* A step that is a request to deregister the terminal id.
DeregisterStep(id) ==
  /\ reply'.url = DeregisterUrl(id)
  /\ reply' # reply \/ terminal_sessions' # terminal_sessions

\* C31: a session row goes from active to inactive only in a logout that
\* carries its id or in a deregistration of its terminal, both of which leave
\* it inactive; an inactive session never becomes active again, and every
\* protected route answers its id with 401.
C31_SessionLifetime ==
  [][\A sid \in DOMAIN terminal_sessions :
       LET terminal == terminal_sessions[sid].terminal_id
       IN  /\ (ActiveSession(sid) /\ ~terminal_sessions'[sid].is_active)
                => LogoutStep(sid) \/ DeregisterStep(terminal)
           /\ ((ActiveSession(sid) /\ LogoutStep(sid))
                  \/ (DeregisterStep(terminal) /\ terminal \in terminals))
                => ~terminal_sessions'[sid].is_active
           /\ ~ActiveSession(sid)
                => /\ ~terminal_sessions'[sid].is_active
                   /\ (reply' # reply /\ reply'.sid = sid
                         /\ ~isPublicRoute(reply'.url))
                        => reply'.status = 401]_vars

\* A session ended by the deregistration of its terminal is refused, while
\* a session of the other terminal is still active.
C31_Witness ==
  /\ reply.url = <<"api", "sales">> /\ reply.status = 401
  /\ reply.sid \in DOMAIN terminal_sessions
  /\ terminal_sessions[reply.sid].terminal_id = "t1"
  /\ "t1" \in terminals /\ "t2" \notin terminals
  /\ \E s \in DOMAIN terminal_sessions : ActiveSession(s)


\* The role of a peer by its terminal record: the type stored for the
\* terminal, in lower case, and "pos" for a peer without a terminal record.
RecordRole(clientId) ==
  LET terminalId == clients[clientId].terminalId
  IN  IF terminalId \in terminals THEN toLowerCase(device_type[terminalId])
      ELSE "pos"

\* C32: a broadcast with a role filter sends one frame to every open socket
\* whose role, the type of its terminal record, equals the filter role and
\* whose client id is not the excluded one, and to no other socket.
C32_RoleFilteredBroadcast ==
  [][(frames' # frames /\ frames'.filter.role # "none")
       => /\ Range(frames'.to) =
               {c \in DOMAIN clients :
                  /\ clients[c].readyState = OPEN
                  /\ RecordRole(c) = frames'.filter.role
                  /\ c # frames'.filter.excludeId}
          /\ \A j, k \in DOMAIN frames'.to :
               j # k => frames'.to[j] # frames'.to[k]]_vars


\* C33: a request to close a cash drawer that exists and is not OPEN is
\* answered 400, leaves the drawer row as it was and writes no outbox row.
C33_CloseNonOpenDrawer ==
  [][(/\ reply'.url = CloseUrl
      /\ reply' # reply \/ outbox' # outbox
      /\ reply'.id \in DOMAIN cash_drawers
      /\ cash_drawers[reply'.id] # "OPEN")
       => /\ reply'.status = 400
          /\ cash_drawers' = cash_drawers
          /\ outbox' = outbox]_vars


\* C34: the database is closed only when no drain is in progress, and no
\* engine uses the store after it was closed or starts a tick after the
\* shutdown.
C34_DrainEndsBeforeClose ==
  (alive /\ ~dbOpen) => /\ ~running
                        /\ ~touchedClosed
                        /\ ~intervalId.push /\ ~intervalId.pull

\* C36: while no drain is in progress no outbox row has status PROCESSING.
C36_NoProcessingOutsideDrain ==
  ~running => \A i \in DOMAIN outbox : outbox[i].status # "PROCESSING"


\* C35: a call of get or post never throws; its envelope has ok = TRUE
\* exactly when an HTTP response with a 2xx status came back, and has
\* ok = FALSE, status = 0 and an error exactly when no HTTP response came
\* back.
C35_Envelope ==
  envelope.method # "none"
    => /\ ~envelope.thrown
       /\ envelope.ok <=> (/\ envelope.response.kind = "response"
                            /\ ResOk(envelope.response.status))
       /\ (~envelope.ok /\ envelope.status = 0 /\ envelope.error)
            <=> envelope.response.kind # "response"


\* C37: every outbox row with status PENDING has attempts < max_attempts,
\* so the pickup query selects it.
C37_PendingIsEligible ==
  \A i \in DOMAIN outbox :
    outbox[i].status = "PENDING" => outbox[i].attempts < outbox[i].max_attempts


\* C38: the handler of an entity whose request is not answered with a 2xx
\* status (404 included) leaves the entity's sync_state row as it was.
C38_FailedPullKeepsSyncState ==
  [][\A p \in DOMAIN entities :
       (/\ pullRunning /\ plan_pos = p /\ plan_pos' # p
        /\ ~ResOk(ResponseStatus(entities[p])))
         => sync_state'[entities[p]] = sync_state[entities[p]]]_vars

\* The cursor-based entities the cloud holds rows of.
CursorCloudEntities == CursorEntities \cap CloudEntities

\* The pull engine against a cloud that also writes while an answer is in
\* flight.  The instants are the seconds of datetime('now'): between cycles
\* the cloud writes a row only once the clock has passed the entity's
\* last_synced_at, so that every such write is newer than the cursor.
CursorInit ==
  /\ InitStore
  /\ InitPull
  /\ InitApi
  /\ terminals = {}
  /\ cloudFault = NoFault
  /\ cloudGiftCards = EmptyFn
  /\ cloudApiUrl = "valid"
  /\ cloudMode = "free"

CursorNext ==
  \/ runFullSync
  \/ CloudAnswers
  \/ pending # NoAnswer /\ PullEntity
  \/ \E name \in CursorCloudEntities, id \in Range(RowIds) :
       getSyncState(name).last_synced_at < now /\ CloudWrite(name, id)
  \/ \E name \in CursorCloudEntities, id \in Range(RowIds) :
       CloudWriteInFlight(name, id)
  \/ Tick

\* The pull timer keeps firing, the cloud answers every request and every
\* handler runs to its end.
CursorFairSpec ==
  /\ CursorInit
  /\ [][CursorNext]_vars
  /\ WF_vars(runFullSync)
  /\ WF_vars(CloudAnswers)
  /\ WF_vars(pending # NoAnswer /\ PullEntity)

\* The updated_at of the local copy of a cloud row (0: no local copy).
LocalVersion(name, id) ==
  IF \E k \in DOMAIN tables[name] : tables[name][k].id = id
  THEN (CHOOSE row \in Range(tables[name]) : row.id = id).updated_at
  ELSE 0

\* C39: a row of a cursor-based entity that the cloud created or updated at
\* any instant is eventually held locally at that version or a later one.
C39_PullCompleteness ==
  \A name \in CursorCloudEntities : \A id \in Range(RowIds) :
    \A v \in 1..MaxTime :
      (cloud[name][id] = v) ~> (LocalVersion(name, id) >= v)

\* The hub with its pull and push engines and the redeem route, against a
\* cloud that holds an active and an inactive gift card and applies every
\* redeem pushed to it.
GiftInit ==
  /\ InitStore
  /\ InitPull
  /\ InitApi
  /\ terminals = {}
  /\ cloudFault = NoFault
  /\ cloudGiftCards =
       [id \in {0, 1} |->
          [current_balance |-> MaxBalance, is_active |-> IF id = 0 THEN 1 ELSE 0]]
  /\ cloudApiUrl = "valid"
  /\ cloudMode = "accept"

GiftNext ==
  \/ runFullSync
  \/ PullEntity
  \/ Len(outbox) < MaxRows
       /\ \E code \in {0, 1, 2}, amount \in {RedeemAmount, MaxBalance + 1} :
            RedeemGiftCard(code, amount)
  \/ ProcessOutbox
  \/ PostReturns

GiftSpec == GiftInit /\ [][GiftNext]_vars

\* The redeems of card `id` for whose outbox row no POST has been sent yet.
UnpushedRedeems(id) ==
  {i \in DOMAIN outbox :
     /\ outbox[i].entity_type = "gift_card" /\ outbox[i].action = "redeem"
     /\ outbox[i].entity_id = id /\ hist[i].posts = 0}

\* C40: the gift-card handler of a pull cycle does not raise the local
\* balance of a card that has a redeem whose outbox row is not yet pushed.
C40_RedeemSurvivesPull ==
  [][\A id \in DOMAIN gift_cards :
       (/\ pullRunning
        /\ plan_pos \in DOMAIN entities
        /\ entities[plan_pos] = "gift_cards"
        /\ plan_pos' # plan_pos
        /\ UnpushedRedeems(id) # {})
         => gift_cards'[id].current_balance <= gift_cards[id].current_balance]_vars

====
